---- MODULE Spec2Model ----
(***************************************************************************)
(* Model of job_card_extractor.py: barcode sanitization, horizontal-line   *)
(* detection, job-number resolution, operation extraction, and the page,   *)
(* document and batch loops that feed them.                                *)
(*                                                                         *)
(* Python strings are modelled as sequences of one-character strings, so   *)
(* that the regular expressions of the source are matched character by     *)
(* character.  Python dicts are modelled as sequences of entries in        *)
(* insertion order (the order Python iterates them in).                    *)
(***************************************************************************)
EXTENDS Integers, Sequences, FiniteSets, TLC

VARIABLES
    pc,                     \* position of the call under study
    raw_value,              \* clean_barcode_value: the decoded payload s
    cleaned,                \* clean_barcode_value(s)
    recleaned,              \* clean_barcode_value(clean_barcode_value(s))
    img_cv,                 \* detect_horizontal_lines: page shape and contours
    lines_y,                \* detect_horizontal_lines: returned boundaries
    json_data,              \* the list of areas handed to the extractors
    job_number,             \* extract_job_number: returned value
    operations_dict,        \* extract_operations: local dict at return
    barcodes_by_op_number,  \* extract_operations: local dict at return
    operations,             \* extract_operations: returned list
    caller,                 \* the outermost function of the run
    easyocr_bound,          \* whether the global name easyocr resolves
    pdf_files,              \* main: args.pdf_files, the documents of the batch
    pdf_file,               \* main: 1-based position of the current document
    images,                 \* extract_areas_from_pdf: the rasterized pages
    page_num,               \* extract_areas_from_pdf: 0-based page counter
    all_areas,              \* extract_areas_from_pdf: accumulated areas
    band,                   \* process_page: the loop counter i
    crop,                   \* process_page: what the current band shows
    barcodes_data,          \* process_page: detect_barcodes(crop)[0]
    band_text,              \* process_page: perform_ocr(reader, crop_for_ocr)
    page_areas,             \* process_page: the local list areas
    calls,                  \* collaborator and extractor calls so far, in order
    reports,                \* main: outcome reported for each document
    error,                  \* the exception that ended the run, if any
    raw_name,               \* clean_operation_name: the argument op_name
    cleaned_name            \* clean_operation_name: the string it returns

\* the variables of the page, document and batch loops
pipeline_vars == <<caller, easyocr_bound, pdf_files, pdf_file, images, page_num,
                   all_areas, band, crop, barcodes_data, band_text, page_areas,
                   calls, reports, error>>

\* the variables of a direct call of clean_operation_name
name_vars == <<raw_name, cleaned_name>>

vars == <<pc, raw_value, cleaned, recleaned, img_cv, lines_y, json_data,
          job_number, operations_dict, barcodes_by_op_number, operations,
          pipeline_vars, name_vars>>

-----------------------------------------------------------------------------
(* Bounds of the model.                                                    *)

MaxRawLen == 3
MaxHeight == 3
MaxWidth == 5
MaxContours == 2

-----------------------------------------------------------------------------
(* Characters and Python string primitives.                                *)

Digits == {"0", "1", "2", "3", "4", "5", "6", "7", "8", "9"}

Letters == {"A", "B", "C", "D", "E", "F", "G", "H", "I", "J", "K", "L", "M",
            "N", "O", "P", "Q", "R", "S", "T", "U", "V", "W", "X", "Y", "Z",
            "a", "b", "c", "d", "e", "f", "g", "h", "i", "j", "k", "l", "m",
            "n", "o", "p", "q", "r", "s", "t", "u", "v", "w", "x", "y", "z"}

Whitespace == {" ", "\t", "\n", "\r", "\f"}

isdigit(c) == c \in Digits

isalnum(c) == c \in Letters \cup Digits

isspace(c) == c \in Whitespace

SeqsUpTo(S, n) == UNION {[1..k -> S] : k \in 0..n}

Range(seq) == {seq[i] : i \in 1..Len(seq)}

\* seq[i..] (Python s[i-1:])
DropTo(seq, i) == SubSeq(seq, i, Len(seq))

-----------------------------------------------------------------------------
(* clean_barcode_value                                                     *)

\* a payload filter that drops whitespace only
clean_barcode_value_keeps_punctuation(s) == SelectSeq(s, LAMBDA c : ~isspace(c))

\* ''.join(c for c in s if c.isalnum())
clean_barcode_value(s) == SelectSeq(s, isalnum)

-----------------------------------------------------------------------------
(* detect_horizontal_lines                                                 *)

\* int(img_cv.shape[1] * 0.6): the float product truncated; it equals
\* floor(3 * width / 5) for every width below 5000.
min_line_length(width) == (6 * width) \div 10

\* the top y of the contours kept by the width filter, in contour order
RECURSIVE kept_lines(_, _)
kept_lines(contours, width) ==
    IF contours = <<>> THEN <<>>
    ELSE IF Head(contours).w >= min_line_length(width)
         THEN <<Head(contours).y>> \o kept_lines(Tail(contours), width)
         ELSE kept_lines(Tail(contours), width)

\* sorted(list of ints): stable insertion into an ascending list
RECURSIVE insert_sorted(_, _)
insert_sorted(x, seq) ==
    IF seq = <<>> THEN <<x>>
    ELSE IF x < Head(seq) THEN <<x>> \o seq
         ELSE <<Head(seq)>> \o insert_sorted(x, Tail(seq))

RECURSIVE sorted_ints(_)
sorted_ints(seq) ==
    IF seq = <<>> THEN <<>>
    ELSE insert_sorted(seq[Len(seq)], sorted_ints(SubSeq(seq, 1, Len(seq) - 1)))

\* a list(set(...)) that keeps duplicates
list_set_keeps_duplicates(seq) == seq

\* list(set(seq)): one occurrence of every element
RECURSIVE list_set(_)
list_set(seq) ==
    IF seq = <<>> THEN <<>>
    ELSE LET rest == list_set(SubSeq(seq, 1, Len(seq) - 1))
             x == seq[Len(seq)]
         IN IF x \in Range(rest) THEN rest ELSE Append(rest, x)

with_page_edges(ys, height) == <<0>> \o sorted_ints(ys) \o <<height>>

detect_horizontal_lines(img) ==
    sorted_ints(list_set(with_page_edges(kept_lines(img.contours, img.width),
                                         img.height)))

-----------------------------------------------------------------------------
(* Python str helpers used by the extractors.                              *)

\* str.strip(): leading and trailing whitespace removed
RECURSIVE lstrip(_)
lstrip(s) == IF s # <<>> /\ isspace(Head(s)) THEN lstrip(Tail(s)) ELSE s

RECURSIVE rstrip(_)
rstrip(s) ==
    IF s # <<>> /\ isspace(s[Len(s)]) THEN rstrip(SubSeq(s, 1, Len(s) - 1)) ELSE s

strip(s) == rstrip(lstrip(s))

\* s.startswith(prefix) at offset i (1-based): s[i..] begins with lit
starts_at(s, i, lit) ==
    /\ i + Len(lit) - 1 <= Len(s)
    /\ \A k \in 1..Len(lit) : s[i + k - 1] = lit[k]

\* lit in s
contains(s, lit) == \E i \in 1..(Len(s) + 1) : starts_at(s, i, lit)

-----------------------------------------------------------------------------
(* extract_job_number                                                      *)

JobNoMarker == <<"J", "o", "b", " ", "N", "o">>

\* the sort key (page, area_index), compared as Python compares tuples
area_key_less(a, b) ==
    \/ a.page < b.page
    \/ a.page = b.page /\ a.area_index < b.area_index

RECURSIVE insert_area(_, _)
insert_area(a, seq) ==
    IF seq = <<>> THEN <<a>>
    ELSE IF area_key_less(a, Head(seq)) THEN <<a>> \o seq
         ELSE <<Head(seq)>> \o insert_area(a, Tail(seq))

\* areas taken in input order, without the sort
sorted_areas_input_order(areas) == areas

\* sorted(json_data, key=(page, area_index)): stable
RECURSIVE sorted_areas(_)
sorted_areas(areas) ==
    IF areas = <<>> THEN <<>>
    ELSE insert_area(areas[Len(areas)],
                     sorted_areas(SubSeq(areas, 1, Len(areas) - 1)))

\* a list.sort() in place: the caller's list is reordered
argument_after_sort_in_place(areas) == sorted_areas(areas)

\* the caller's list after sorted(json_data, ...): sorted() builds a new list
\* and leaves its argument as it was
argument_after_sorted(areas) == areas

\* a first loop that does not look for the label
is_labelled_job_area_without_label(area) ==
    /\ area.page = 1
    /\ area.barcodes # <<>>

\* the condition of the first loop
is_labelled_job_area(area) ==
    /\ area.page = 1
    /\ contains(strip(area.ocr_text), JobNoMarker)
    /\ area.barcodes # <<>>

\* the condition of the second loop
is_barcode_area(area) ==
    /\ area.page = 1
    /\ area.barcodes # <<>>

RECURSIVE first_labelled(_)
first_labelled(areas) ==
    IF areas = <<>> THEN <<>>
    ELSE IF is_labelled_job_area(Head(areas)) THEN <<Head(areas)>>
         ELSE first_labelled(Tail(areas))

RECURSIVE first_with_barcode(_)
first_with_barcode(areas) ==
    IF areas = <<>> THEN <<>>
    ELSE IF is_barcode_area(Head(areas)) THEN <<Head(areas)>>
         ELSE first_with_barcode(Tail(areas))

\* a resolver that gives up at the first labelled page-1 area when that area
\* has no barcode
extract_job_number_stops_at_label(areas) ==
    LET sorted == sorted_areas(areas)
        marked == {k \in 1..Len(sorted) :
                     /\ sorted[k].page = 1
                     /\ contains(strip(sorted[k].ocr_text), JobNoMarker)}
        labelled == first_labelled(sorted)
        fallback == first_with_barcode(sorted)
    IN IF \E k \in marked : (\A m \in marked : k <= m) /\ sorted[k].barcodes = <<>>
       THEN <<>>
       ELSE IF labelled # <<>> THEN labelled[1].barcodes[1].barcode
            ELSE IF fallback # <<>> THEN fallback[1].barcodes[1].barcode
                 ELSE <<>>

extract_job_number(areas) ==
    LET sorted == sorted_areas(areas)
        labelled == first_labelled(sorted)
        fallback == first_with_barcode(sorted)
    IN IF labelled # <<>> THEN labelled[1].barcodes[1].barcode
       ELSE IF fallback # <<>> THEN fallback[1].barcodes[1].barcode
            ELSE <<>>


-----------------------------------------------------------------------------
(* Regular-expression primitives.  A position is a 1-based index into the  *)
(* string; 0 stands for "no match", and every primitive passes 0 on.       *)

RECURSIVE skip_spaces(_, _)
skip_spaces(s, i) ==
    IF i <= Len(s) /\ isspace(s[i]) THEN skip_spaces(s, i + 1) ELSE i

\* the first position from i on that holds no digit, or the position after
\* the end
skip_digits(s, i) ==
    IF i > Len(s) THEN i
    ELSE CHOOSE j \in i..(Len(s) + 1) :
            /\ j > Len(s) \/ ~isdigit(s[j])
            /\ \A k \in i..(j - 1) : isdigit(s[k])

\* \s*
ws_star(s, i) == IF i = 0 THEN 0 ELSE skip_spaces(s, i)

\* \s+
ws_plus(s, i) == IF i # 0 /\ skip_spaces(s, i) > i THEN skip_spaces(s, i) ELSE 0

\* a literal
lit_end(s, i, lit) == IF i # 0 /\ starts_at(s, i, lit) THEN i + Len(lit) ELSE 0

\* a character class
one_of(s, i, class) == IF i # 0 /\ i <= Len(s) /\ s[i] \in class THEN i + 1 ELSE 0

\* an optional single character: c?
opt_char(s, i, c) == IF i # 0 /\ i <= Len(s) /\ s[i] = c THEN i + 1 ELSE i

\* \d+(?:\.\d+)? : greedy.  In both operation patterns the number is followed
\* by whitespace, so no shorter match of the number can succeed on backtracking.
number_end(s, i) ==
    IF i = 0 \/ skip_digits(s, i) = i THEN 0
    ELSE LET j == skip_digits(s, i)
         IN IF j <= Len(s) /\ s[j] = "." /\ skip_digits(s, j + 1) > j + 1
            THEN skip_digits(s, j + 1)
            ELSE j

\* 20\d\d
year_end(s, i) ==
    one_of(s, one_of(s, lit_end(s, i, <<"2", "0">>), Digits), Digits)

\* (?:Operation\s+)? : without the label the number must start here, and
\* "Operation" starts with no digit, so the group is taken whenever it matches.
operation_label_end(s, i) ==
    LET e == ws_plus(s, lit_end(s, i, <<"O", "p", "e", "r", "a", "t", "i", "o", "n">>))
    IN IF e # 0 THEN e ELSE i

\* .*$ from position i: "." matches no newline, "$" matches at the end of the
\* string or before a final newline.  The position after the match, or 0.
skip_line(s, i) ==
    IF i > Len(s) THEN i
    ELSE CHOOSE j \in i..(Len(s) + 1) :
            /\ j > Len(s) \/ s[j] = "\n"
            /\ \A k \in i..(j - 1) : s[k] # "\n"

dot_star_end(s, i) ==
    IF i = 0 THEN 0
    ELSE LET q == skip_line(s, i)
         IN IF q >= Len(s) THEN q ELSE 0

Min(S) == CHOOSE x \in S : \A y \in S : x <= y

\* str.split('\n')
RECURSIVE split_lines(_)
split_lines(s) ==
    LET q == skip_line(s, 1)
    IN IF q > Len(s) THEN <<s>>
       ELSE <<SubSeq(s, 1, q - 1)>> \o split_lines(DropTo(s, q + 1))

-----------------------------------------------------------------------------
(* clean_operation_name                                                    *)

\* a pattern that knows the lower-case word only
ScanInitialLowerOnly == {"s"}

\* [sS]
ScanInitial == {"s", "S"}

\* ^(?:20\d\d\s+)
year_pattern_end(s) == ws_plus(s, year_end(s, 1))

\* a cleanup that leaves the year where it is
remove_year_prefix_never(s) == s

remove_year_prefix(s) ==
    IF year_pattern_end(s) # 0 THEN DropTo(s, year_pattern_end(s)) ELSE s

\* (?:t[o0]\s+|to\s+)? : "start" begins with no "t", so the group is taken
\* whenever it matches.
opt_to_ws(s, i) ==
    LET e == ws_plus(s, one_of(s, lit_end(s, i, <<"t">>), {"o", "0"}))
    IN IF e # 0 THEN e ELSE i

\* \s*[sS]can\s+barcodes\s+(?:t[o0]\s+|to\s+)?start\s+job\s+operation.*$
scan_standard_end(s, p) ==
    LET a == lit_end(s, one_of(s, ws_star(s, p), ScanInitial), <<"c", "a", "n">>)
        b == lit_end(s, ws_plus(s, a), <<"b", "a", "r", "c", "o", "d", "e", "s">>)
        c == lit_end(s, opt_to_ws(s, ws_plus(s, b)), <<"s", "t", "a", "r", "t">>)
        d == lit_end(s, ws_plus(s, c), <<"j", "o", "b">>)
        e == lit_end(s, ws_plus(s, d), <<"o", "p", "e", "r", "a", "t", "i", "o", "n">>)
    IN dot_star_end(s, e)

\* \s*~?[sS]can-barcodes-(?:t[o0]|to)-start-job\s+operation.*$
scan_hyphen_end(s, p) ==
    LET a == lit_end(s, one_of(s, opt_char(s, ws_star(s, p), "~"), ScanInitial),
                     <<"c", "a", "n", "-", "b", "a", "r", "c", "o", "d", "e", "s", "-">>)
        b == one_of(s, lit_end(s, a, <<"t">>), {"o", "0"})
        c == lit_end(s, b, <<"-", "s", "t", "a", "r", "t", "-", "j", "o", "b">>)
        d == lit_end(s, ws_plus(s, c), <<"o", "p", "e", "r", "a", "t", "i", "o", "n">>)
    IN dot_star_end(s, d)

\* \s*~?\s*[sS]can.*$
scan_any_end(s, p) ==
    LET a == ws_star(s, opt_char(s, ws_star(s, p), "~"))
        b == lit_end(s, one_of(s, a, ScanInitial), <<"c", "a", "n">>)
    IN dot_star_end(s, b)

\* the three scan-instruction patterns of lines 290, 293 and 296: the position
\* after the match of `pattern` that starts at p, or 0
pattern_end(pattern, s, p) ==
    CASE pattern = "standard" -> scan_standard_end(s, p)
      [] pattern = "hyphen" -> scan_hyphen_end(s, p)
      [] pattern = "any" -> scan_any_end(s, p)

\* a substitution that finds nothing to remove
regex_sub_no_match(pattern, s) == s

\* re.sub(pattern, '', s) for a pattern that, once matched, runs to the end of
\* the string: the leftmost match is removed.
regex_sub(pattern, s) ==
    LET starts == {p \in 1..Len(s) : pattern_end(pattern, s, p) # 0}
    IN IF starts = {} THEN s
       ELSE SubSeq(s, 1, Min(starts) - 1)
            \o DropTo(s, pattern_end(pattern, s, Min(starts)))

clean_operation_name(op_name) ==
    strip(regex_sub("any",
                    regex_sub("hyphen",
                              regex_sub("standard", remove_year_prefix(op_name)))))


-----------------------------------------------------------------------------
(* extract_operations                                                      *)

MAX_OP_NUMBER == 1000

NoMatch == [matched |-> FALSE, op_number |-> <<>>, op_name |-> <<>>]

\* re.match(r'^(?:Operation\s+)?(\d+(?:\.\d+)?)\s*[\n\s]+(.+)', ocr_text,
\* re.DOTALL): groups 1 and 2.  The whitespace run is consumed greedily; when
\* it reaches the end of the text its last character is given back to (.+).
match_multiline(ocr_text) ==
    LET a == operation_label_end(ocr_text, 1)
        b == number_end(ocr_text, a)
        c == ws_plus(ocr_text, b)
    IN IF c = 0 \/ (c > Len(ocr_text) /\ c - b < 2) THEN NoMatch
       ELSE [matched |-> TRUE,
             op_number |-> SubSeq(ocr_text, a, b - 1),
             op_name |-> IF c > Len(ocr_text) THEN DropTo(ocr_text, c - 1)
                         ELSE DropTo(ocr_text, c)]

\* remaining_lines = match.group(2).strip().split('\n');
\* op_name = remaining_lines[0].strip()
first_remaining_line(group2) == strip(split_lines(strip(group2))[1])

\* (?:20\d\d\s+)? after the number's whitespace: (.*) matches anything, so the
\* group is taken whenever it matches.
opt_year_ws(s, i) ==
    LET e == ws_plus(s, year_end(s, i))
    IN IF e # 0 THEN e ELSE i

\* re.match(r'^(?:Operation\s+)?(\d+(?:\.\d+)?)\s+(?:20\d\d\s+)?(.*)$', line)
match_line(line) ==
    LET a == operation_label_end(line, 1)
        b == number_end(line, a)
        c == ws_plus(line, b)
        d == IF c = 0 THEN 0 ELSE opt_year_ws(line, c)
    IN IF dot_star_end(line, d) = 0 THEN NoMatch
       ELSE [matched |-> TRUE,
             op_number |-> SubSeq(line, a, b - 1),
             op_name |-> SubSeq(line, d, dot_star_end(line, d) - 1)]

DigitValue(c) ==
    CASE c = "0" -> 0 [] c = "1" -> 1 [] c = "2" -> 2 [] c = "3" -> 3
      [] c = "4" -> 4 [] c = "5" -> 5 [] c = "6" -> 6 [] c = "7" -> 7
      [] c = "8" -> 8 [] c = "9" -> 9

RECURSIVE digits_value(_)
digits_value(ds) ==
    IF ds = <<>> THEN 0
    ELSE 10 * digits_value(SubSeq(ds, 1, Len(ds) - 1)) + DigitValue(ds[Len(ds)])

\* the digits before the decimal point of a number string, without the
\* leading zeros
significant_digits(op_number) ==
    LET ds == SubSeq(op_number, 1, skip_digits(op_number, 1) - 1)
        nonzero == {k \in 1..Len(ds) : ds[k] # "0"}
    IN IF nonzero = {} THEN <<>> ELSE DropTo(ds, Min(nonzero))

\* 2^1024 - 2^970, the least integer that float() rounds to infinity
FloatOverflowDigits ==
    <<"1", "7", "9", "7", "6", "9", "3", "1", "3", "4", "8", "6", "2", "3", "1",
      "5", "8", "0", "7", "9", "3", "7", "2", "8", "9", "7", "1", "4", "0", "5",
      "3", "0", "3", "4", "1", "5", "0", "7", "9", "9", "3", "4", "1", "3", "2",
      "7", "1", "0", "0", "3", "7", "8", "2", "6", "9", "3", "6", "1", "7", "3",
      "7", "7", "8", "9", "8", "0", "4", "4", "4", "9", "6", "8", "2", "9", "2",
      "7", "6", "4", "7", "5", "0", "9", "4", "6", "6", "4", "9", "0", "1", "7",
      "9", "7", "7", "5", "8", "7", "2", "0", "7", "0", "9", "6", "3", "3", "0",
      "2", "8", "6", "4", "1", "6", "6", "9", "2", "8", "8", "7", "9", "1", "0",
      "9", "4", "6", "5", "5", "5", "5", "4", "7", "8", "5", "1", "9", "4", "0",
      "4", "0", "2", "6", "3", "0", "6", "5", "7", "4", "8", "8", "6", "7", "1",
      "5", "0", "5", "8", "2", "0", "6", "8", "1", "9", "0", "8", "9", "0", "2",
      "0", "0", "0", "7", "0", "8", "3", "8", "3", "6", "7", "6", "2", "7", "3",
      "8", "5", "4", "8", "4", "5", "8", "1", "7", "7", "1", "1", "5", "3", "1",
      "7", "6", "4", "4", "7", "5", "7", "3", "0", "2", "7", "0", "0", "6", "9",
      "8", "5", "5", "5", "7", "1", "3", "6", "6", "9", "5", "9", "6", "2", "2",
      "8", "4", "2", "9", "1", "4", "8", "1", "9", "8", "6", "0", "8", "3", "4",
      "9", "3", "6", "4", "7", "5", "2", "9", "2", "7", "1", "9", "0", "7", "4",
      "1", "6", "8", "4", "4", "4", "3", "6", "5", "5", "1", "0", "7", "0", "4",
      "3", "4", "2", "7", "1", "1", "5", "5", "9", "6", "9", "9", "5", "0", "8",
      "0", "9", "3", "0", "4", "2", "8", "8", "0", "1", "7", "7", "9", "0", "4",
      "1", "7", "4", "4", "9", "7", "7", "9", "2">>

\* a >= b for two digit strings of the same length
digits_geq(a, b) ==
    \/ a = b
    \/ \E k \in 1..Len(a) :
          /\ DigitValue(a[k]) > DigitValue(b[k])
          /\ \A j \in 1..(k - 1) : a[j] = b[j]

\* a conversion that never overflows
float_overflows_never(op_number) == FALSE

\* int(float(op_number)) raises OverflowError: float() returns inf for a
\* number of at least 2^1024 - 2^970, and int(inf) cannot be converted
float_overflows(op_number) ==
    LET sig == significant_digits(op_number)
    IN \/ Len(sig) > Len(FloatOverflowDigits)
       \/ Len(sig) = Len(FloatOverflowDigits) /\ digits_geq(sig, FloatOverflowDigits)

\* int(float(op_number)) for a string matched by \d+(?:\.\d+)? that float()
\* keeps finite: the value of the digits before the point (the fractions of
\* the model are short enough for float() not to round them up).  Python
\* integers are unbounded; a value of more than 9 significant digits stands
\* here as 10^9, which compares with MAX_OP_NUMBER as the value does.
int_float(op_number) ==
    IF Len(significant_digits(op_number)) > 9 THEN 1000000000
    ELSE digits_value(significant_digits(op_number))

\* op_number in operations_dict
has_operation(dict, op_number) ==
    \E i \in 1..Len(dict) : dict[i].op_number = op_number

\* an insertion in which the last declaration of a number wins
add_operation_last_wins(dict, op_number, op_name, page) ==
    LET op == [op_number |-> op_number,
               op_name |-> clean_operation_name(op_name),
               op_id |-> <<>>,
               page |-> page]
    IN IF has_operation(dict, op_number)
       THEN [i \in 1..Len(dict) |-> IF dict[i].op_number = op_number THEN op ELSE dict[i]]
       ELSE Append(dict, op)

\* operations_dict[op_number] = {...} guarded by "op_number not in operations_dict"
add_operation(dict, op_number, op_name, page) ==
    IF has_operation(dict, op_number) THEN dict
    ELSE Append(dict, [op_number |-> op_number,
                       op_name |-> clean_operation_name(op_name),
                       op_id |-> <<>>,
                       page |-> page])

\* a whole-text match without the range check
in_range_multiline_unchecked(op_number) == TRUE

\* the range check of the whole-text match: op_num_int <= MAX_OP_NUMBER
in_range_multiline(op_number) == int_float(op_number) <= MAX_OP_NUMBER

\* a per-line match without the range check
skipped_as_too_large_never(op_number) == FALSE

\* the range check of the per-line match: "if op_num_int > MAX_OP_NUMBER: continue"
skipped_as_too_large(op_number) == int_float(op_number) > MAX_OP_NUMBER

\* an extractor without the whole-text step
scan_whole_text_skipped(dict, ocr_text, page) == dict

\* the whole-text step for one area
scan_whole_text(dict, ocr_text, page) ==
    LET m == match_multiline(ocr_text)
    IN IF m.matched /\ in_range_multiline(m.op_number)
       THEN add_operation(dict, m.op_number, first_remaining_line(m.op_name), page)
       ELSE dict

\* an extractor without the per-line step
scan_line_skipped(dict, raw_line, page) == dict

\* the body of "for line in ocr_text.split('\n')" for one line
scan_line(dict, raw_line, page) ==
    LET m == match_line(strip(raw_line))
    IN IF m.matched /\ ~skipped_as_too_large(m.op_number)
       THEN add_operation(dict, m.op_number, m.op_name, page)
       ELSE dict

RECURSIVE scan_lines(_, _, _)
scan_lines(dict, lines, page) ==
    IF lines = <<>> THEN dict
    ELSE scan_lines(scan_line(dict, Head(lines), page), Tail(lines), page)


\* line 347 raises: OverflowError is not the ValueError the handler catches
whole_text_raises(ocr_text) ==
    /\ match_multiline(ocr_text).matched
    /\ float_overflows(match_multiline(ocr_text).op_number)

\* line 375 raises, for the same reason
line_raises(raw_line) ==
    /\ match_line(strip(raw_line)).matched
    /\ float_overflows(match_line(strip(raw_line)).op_number)

\* the first pass raises while it scans this area: its text holds a number
\* of at least as many digits as the least overflowing one
area_raises(area) ==
    /\ Len(area.ocr_text) >= Len(FloatOverflowDigits)
    /\ strip(area.ocr_text) # <<>>
    /\ \/ whole_text_raises(strip(area.ocr_text))
       \/ \E n \in 1..Len(split_lines(strip(area.ocr_text))) :
             line_raises(split_lines(strip(area.ocr_text))[n])

\* extract_operations ends with an exception instead of a list
extract_operations_raises(areas) ==
    \E k \in 1..Len(areas) : area_raises(areas[k])


\* "$" without re.MULTILINE: position i is the end of s, or the place of a
\* line break that is the last character of s
at_dollar(s, i) == i > Len(s) \/ (i = Len(s) /\ s[i] = "\n")

\* re.search(r'Q(\d+)$', barcode_value): group 1, or <<>> without a match.
\* Everything between the matched Q and the "$" is a digit, so the match is
\* unique.
q_suffix(barcode_value) ==
    LET starts == {p \in 1..Len(barcode_value) :
                     /\ barcode_value[p] = "Q"
                     /\ skip_digits(barcode_value, p + 1) > p + 1
                     /\ at_dollar(barcode_value, skip_digits(barcode_value, p + 1))}
    IN IF starts = {} THEN <<>>
       ELSE SubSeq(barcode_value, Min(starts) + 1,
                   skip_digits(barcode_value, Min(starts) + 1) - 1)

\* an association that takes every barcode for a candidate
is_candidate_always(barcode_value) == TRUE

\* barcode_value.startswith('J')
is_candidate(barcode_value) == starts_at(barcode_value, 1, <<"J">>)

\* An entry of barcodes_by_op_number.  The dict holds str keys (a Q-suffix,
\* mapped to one barcode value) and int keys (a page, mapped to a list of
\* barcode values); a str key never equals an int key.
SuffixEntry(suffix, barcode_value) ==
    [key_type |-> "str", suffix |-> suffix, page |-> 0,
     value |-> barcode_value, values |-> <<>>]

PageEntry(page, barcode_values) ==
    [key_type |-> "int", suffix |-> <<>>, page |-> page,
     value |-> <<>>, values |-> barcode_values]

\* a dict whose keys keep their first value, as operations_dict does
set_suffix_first_wins(dict, suffix, barcode_value) ==
    IF \E i \in 1..Len(dict) : dict[i].key_type = "str" /\ dict[i].suffix = suffix
    THEN dict
    ELSE Append(dict, SuffixEntry(suffix, barcode_value))

\* barcodes_by_op_number[barcode_op_num] = barcode_value: a key already
\* present keeps its position and takes the new value
set_suffix(dict, suffix, barcode_value) ==
    IF \E i \in 1..Len(dict) : dict[i].key_type = "str" /\ dict[i].suffix = suffix
    THEN [i \in 1..Len(dict) |->
            IF dict[i].key_type = "str" /\ dict[i].suffix = suffix
            THEN SuffixEntry(suffix, barcode_value)
            ELSE dict[i]]
    ELSE Append(dict, SuffixEntry(suffix, barcode_value))

\* "if page not in ...: ...[page] = []" followed by "...[page].append(value)"
append_to_page(dict, page, barcode_value) ==
    IF \E i \in 1..Len(dict) : dict[i].key_type = "int" /\ dict[i].page = page
    THEN [i \in 1..Len(dict) |->
            IF dict[i].key_type = "int" /\ dict[i].page = page
            THEN PageEntry(page, Append(dict[i].values, barcode_value))
            ELSE dict[i]]
    ELSE Append(dict, PageEntry(page, <<barcode_value>>))

\* the body of "for barcode in barcodes" for one barcode
collect_barcode(dict, barcode_value, page) ==
    IF ~is_candidate(barcode_value) THEN dict
    ELSE append_to_page(IF q_suffix(barcode_value) # <<>>
                        THEN set_suffix(dict, q_suffix(barcode_value), barcode_value)
                        ELSE dict,
                        page, barcode_value)

RECURSIVE collect_barcodes(_, _, _)
collect_barcodes(dict, barcodes, page) ==
    IF barcodes = <<>> THEN dict
    ELSE collect_barcodes(collect_barcode(dict, Head(barcodes).barcode, page),
                          Tail(barcodes), page)

\* "if not ocr_text: continue": an area without text is skipped as a whole
area_is_skipped(ocr_text) == ocr_text = <<>>

\* the body of the first pass for one area; st holds the two dicts
scan_area(st, area) ==
    LET ocr_text == strip(area.ocr_text)
    IN IF area_is_skipped(ocr_text) THEN st
       ELSE [operations_dict |->
                scan_lines(scan_whole_text(st.operations_dict, ocr_text, area.page),
                           split_lines(ocr_text), area.page),
             barcodes_by_op_number |->
                collect_barcodes(st.barcodes_by_op_number, area.barcodes, area.page)]

RECURSIVE first_pass(_, _)
first_pass(st, areas) ==
    IF areas = <<>> THEN st
    ELSE first_pass(scan_area(st, Head(areas)), Tail(areas))

\* a key comparison that normalizes both sides to integers
key_equals_as_integers(entry, op_number) ==
    /\ entry.key_type = "str"
    /\ digits_value(entry.suffix) = int_float(op_number)

\* op_number == key, as Python compares a str with a dict key
key_equals(entry, op_number) ==
    entry.key_type = "str" /\ entry.suffix = op_number

\* isinstance(barcode_op_num, str) and barcode_op_num.isdigit()
is_digit_key(entry) ==
    /\ entry.key_type = "str"
    /\ entry.suffix # <<>>
    /\ \A k \in 1..Len(entry.suffix) : isdigit(entry.suffix[k])

\* the body of the second pass for one operation
assign_barcode(operation, barcodes) ==
    LET direct == {i \in 1..Len(barcodes) : key_equals(barcodes[i], operation.op_number)}
        scanned == {i \in 1..Len(barcodes) :
                      /\ is_digit_key(barcodes[i])
                      /\ key_equals(barcodes[i], operation.op_number)}
    IN IF direct # {}
       THEN [operation EXCEPT !.op_id = barcodes[Min(direct)].value]
       ELSE IF scanned # {}
            THEN [operation EXCEPT !.op_id = barcodes[Min(scanned)].value]
            ELSE operation

second_pass(dict, barcodes) ==
    [i \in 1..Len(dict) |-> assign_barcode(dict[i], barcodes)]

\* the sort key of the final ordering: int(float(x))
sort_key(op_number) == int_float(op_number)

RECURSIVE insert_operation(_, _)
insert_operation(op, seq) ==
    IF seq = <<>> THEN <<op>>
    ELSE IF sort_key(op.op_number) < sort_key(Head(seq).op_number) THEN <<op>> \o seq
         ELSE <<Head(seq)>> \o insert_operation(op, Tail(seq))

\* sorted(operations_dict.keys(), key=...) mapped to the operations: stable
RECURSIVE sorted_operations(_)
sorted_operations(dict) ==
    IF dict = <<>> THEN <<>>
    ELSE insert_operation(dict[Len(dict)],
                          sorted_operations(SubSeq(dict, 1, Len(dict) - 1)))

\* the two dicts once the second pass has run over what the first pass built
finish_operations(st) ==
    [operations_dict |-> second_pass(st.operations_dict, st.barcodes_by_op_number),
     barcodes_by_op_number |-> st.barcodes_by_op_number]

\* the locals of extract_operations when it returns
extract_operations_locals(areas) ==
    finish_operations(first_pass([operations_dict |-> <<>>,
                                  barcodes_by_op_number |-> <<>>], areas))

extract_operations(areas) ==
    sorted_operations(extract_operations_locals(areas).operations_dict)


-----------------------------------------------------------------------------
(* Inputs.                                                                 *)

MaxAreas == 2
MaxPage == 2
MaxAreaIndex == 1
MaxDocs == 2
MaxNameTokens == 2

\* characters of a decoded barcode payload: alphanumeric, punctuation,
\* whitespace and control characters
PayloadChars == {"J", "q", "7", "-", " ", "\n"}

\* the bounding boxes cv2.boundingRect can report on a page: the top y lies
\* on the page and the width is between 1 and the page width
ContourRects(height, width) == [y : 0..(height - 1), w : 1..width]

Images ==
    UNION {[height : {h}, width : {w},
            contours : SeqsUpTo(ContourRects(h, w), MaxContours)] :
           <<h, w>> \in (1..MaxHeight) \X (1..MaxWidth)}

\* OCR text and barcodes of one area, as the collaborators may report them
AreaContents == {
    [ocr_text |-> <<"O", "p", "e", "r", "a", "t", "i", "o", "n", " ", "1", "0", " ", "C", "U", "T">>,
     barcodes |-> <<[barcode |-> <<"J", "1", "Q", "1", "0">>]>>],
    [ocr_text |-> <<"1", "0", " ", "S", "A", "W">>,
     barcodes |-> <<>>],
    [ocr_text |-> <<>>,
     barcodes |-> <<[barcode |-> <<"J", "2", "Q", "1", "0">>]>>],
    [ocr_text |-> <<"n", "o", " ", "o", "p">>,
     barcodes |-> <<[barcode |-> <<"J", "2", "Q", "1", "0">>]>>],
    [ocr_text |-> <<"1", "0", ".", "5", " ", "B">>,
     barcodes |-> <<>>],
    [ocr_text |-> <<"1", "0", ".", "2", " ", "A">>,
     barcodes |-> <<[barcode |-> <<"J", "Q", "0", "1", "0">>]>>],
    [ocr_text |-> <<"0", " ", "X">>,
     barcodes |-> <<>>],
    [ocr_text |-> <<"1", "0", "0", "0", ".", "5", " ", "Y">>,
     barcodes |-> <<[barcode |-> <<"X", "Q", "1", "0">>]>>],
    [ocr_text |-> <<"2", "0", "2", "2", " ", "Y", "E", "A", "R">>,
     barcodes |-> <<>>],
    [ocr_text |-> <<"3", "0", "\n", "W", "E", "L", "D">>,
     barcodes |-> <<[barcode |-> <<"J", "7">>]>>],
    [ocr_text |-> <<"2", "0", " ", "2", "0", "2", "2", " ", "F", "I", "T", " ", "~", "S", "c", "a", "n", "-", "b", "a", "r", "c", "o", "d", "e", "s", "-", "t", "o", "-", "s", "t", "a", "r", "t", "-", "j", "o", "b", " ", "o", "p", "e", "r", "a", "t", "i", "o", "n", "\n", "1", "0", " ", "D", "R", "I", "L", "L">>,
     barcodes |-> <<[barcode |-> <<"J", "3", "Q", "2", "0">>], [barcode |-> <<"J", "2", "Q", "1", "0">>]>>],
    [ocr_text |-> <<"O", "p", "e", "r", "a", "t", "i", "o", "n", " ", "1", "0", "\n", "G", "R", "I", "N", "D", "\n", "1", "0", " ", "M", "I", "L", "L">>,
     barcodes |-> <<>>]}

Area(page, area_index, contents) ==
    [page |-> page, area_index |-> area_index,
     ocr_text |-> contents.ocr_text, barcodes |-> contents.barcodes]

\* a list of areas: the k-th area is on page pages[k], carries area_index
\* indexes[k] and holds contents[k]
AreaList(pages, indexes, contents) ==
    [k \in DOMAIN contents |-> Area(pages[k], indexes[k], contents[k])]

\* the areas of the job-number resolver: with or without the label, with or
\* without barcodes, one barcode with a payload that sanitizes to nothing
JobAreaContents ==
    [ocr_text : {<<"J", "o", "b", " ", "N", "o", ":", " ", "5">>,
                 <<"O", "t", "h", "e", "r">>,
                 <<>>},
     barcodes : {<<>>,
                 <<[barcode |-> <<"J", "1", "2">>], [barcode |-> <<"J", "6", "7">>]>>,
                 <<[barcode |-> <<"X", "9">>]>>,
                 <<[barcode |-> <<>>]>>}]

\* no two areas of a page share an area_index
DistinctKeys(pages, indexes) ==
    \A i, j \in DOMAIN pages : i # j => <<pages[i], indexes[i]>> # <<pages[j], indexes[j]>>

-----------------------------------------------------------------------------
(* State machines.                                                         *)

\* the results before any call
NoResults ==
    /\ cleaned = <<>>
    /\ recleaned = <<>>
    /\ lines_y = <<>>
    /\ job_number = <<>>
    /\ operations_dict = <<>>
    /\ barcodes_by_op_number = <<>>
    /\ operations = <<>>

\* clean_operation_name is not called directly
NoName ==
    /\ raw_name = <<>>
    /\ cleaned_name = <<>>

\* no page, document or batch loop is running: a function is called directly
NoPipeline ==
    /\ caller = "none"
    /\ easyocr_bound = FALSE
    /\ pdf_files = <<>>
    /\ pdf_file = 0
    /\ images = <<>>
    /\ page_num = 0
    /\ all_areas = <<>>
    /\ band = 0
    /\ crop = <<>>
    /\ barcodes_data = <<>>
    /\ band_text = <<>>
    /\ page_areas = <<>>
    /\ calls = <<>>
    /\ reports = <<>>
    /\ error = ""

\* extract_job_and_operations on a list of at most MaxAreas areas on pages
\* 1..MaxPage, the k-th area carrying area_index k - 1
Init ==
    /\ pc = "start"
    /\ \E n \in 0..MaxAreas :
         \E pages \in [1..n -> 1..MaxPage], contents \in [1..n -> AreaContents] :
            json_data = AreaList(pages, [k \in 1..n |-> k - 1], contents)
    /\ raw_value = <<>>
    /\ img_cv = <<>>
    /\ NoResults
    /\ NoName
    /\ NoPipeline

\* one invocation of a collaborator or of an extractor: its name, the
\* document, the 0-based page and the top of the band it is made for (-1
\* outside a page or a band)
Call(fn, page, y1) == [fn |-> fn, pdf_file |-> pdf_file, page |-> page, y1 |-> y1]

\* a handler that lets the exception through
handles_nothing(exc) == FALSE

\* "except Exception as e" in main: every exception the run can raise here
\* derives from Exception
handles(exc) == TRUE

\* an exception leaves the current function: main's handler reports it and
\* goes on with the loop, any other run ends with it
Raise(exc) ==
    IF caller = "main" /\ handles(exc)
    THEN /\ reports' = Append(reports, [pdf_file |-> pdf_file, outcome |-> exc])
         /\ pc' = "main_loop"
         /\ UNCHANGED error
    ELSE /\ error' = exc
         /\ pc' = "raised"
         /\ UNCHANGED reports

NoRaise == UNCHANGED <<reports, error>>

\* job_number = extract_job_number(json_data)
ExtractJobNumber ==
    /\ pc = "start"
    /\ UNCHANGED name_vars
    /\ job_number' = extract_job_number(json_data)
    /\ json_data' = argument_after_sorted(json_data)
    /\ calls' = Append(calls, Call("extract_job_number", -1, -1))
    /\ pc' = "job_number"
    /\ NoRaise
    /\ UNCHANGED <<raw_value, cleaned, recleaned, img_cv, lines_y,
                   operations_dict, barcodes_by_op_number, operations, caller,
                   easyocr_bound, pdf_files, pdf_file, images, page_num,
                   all_areas, band, crop, barcodes_data, band_text, page_areas>>

\* operations = extract_operations(json_data)
ExtractOperations ==
    /\ pc = "job_number"
    /\ UNCHANGED name_vars
    /\ calls' = Append(calls, Call("extract_operations", -1, -1))
    /\ IF extract_operations_raises(json_data)
       THEN /\ Raise("OverflowError")
            /\ UNCHANGED <<operations_dict, barcodes_by_op_number, operations>>
       ELSE /\ \E locals \in {extract_operations_locals(json_data)} :
                  /\ operations_dict' = locals.operations_dict
                  /\ barcodes_by_op_number' = locals.barcodes_by_op_number
                  /\ operations' = sorted_operations(locals.operations_dict)
            /\ pc' = "done"
            /\ NoRaise
    /\ UNCHANGED <<raw_value, cleaned, recleaned, img_cv, lines_y, json_data,
                   job_number, caller, easyocr_bound, pdf_files, pdf_file, images,
                   page_num, all_areas, band, crop, barcodes_data, band_text,
                   page_areas>>

Next == ExtractJobNumber \/ ExtractOperations

Spec == Init /\ [][Next]_vars

\* extract_job_number on at most MaxAreas areas in any order, no two areas
\* sharing (page, area_index)
InitJob ==
    /\ pc = "start"
    /\ \E n \in 0..MaxAreas :
         \E pages \in [1..n -> 1..MaxPage], indexes \in [1..n -> 0..MaxAreaIndex],
            contents \in [1..n -> JobAreaContents] :
            /\ DistinctKeys(pages, indexes)
            /\ json_data = AreaList(pages, indexes, contents)
    /\ raw_value = <<>>
    /\ img_cv = <<>>
    /\ NoResults
    /\ NoName
    /\ NoPipeline

NextJob == ExtractJobNumber

SpecJob == InitJob /\ [][NextJob]_vars

\* areas whose text holds a number too long for float(): standing first in
\* the text, on a later line, one digit short of the overflow, and areas
\* without any number
LongNumberContents == {
    [ocr_text |-> FloatOverflowDigits \o <<" ", "X">>,
     barcodes |-> <<>>],
    [ocr_text |-> <<"A", "\n">> \o FloatOverflowDigits \o <<" ", "B">>,
     barcodes |-> <<[barcode |-> <<"J", "7">>]>>],
    [ocr_text |-> Tail(FloatOverflowDigits) \o <<" ", "Y">>,
     barcodes |-> <<>>],
    [ocr_text |-> <<"1", "0", " ", "S", "A", "W">>,
     barcodes |-> <<>>],
    [ocr_text |-> <<>>,
     barcodes |-> <<[barcode |-> <<"J", "7">>]>>],
    [ocr_text |-> <<>>,
     barcodes |-> <<>>]}

\* extract_job_and_operations on at most MaxAreas areas, some of them with a
\* number of more than 300 digits
InitLongNumbers ==
    /\ pc = "start"
    /\ \E n \in 0..MaxAreas :
         \E pages \in [1..n -> 1..MaxPage], contents \in [1..n -> LongNumberContents] :
            json_data = AreaList(pages, [k \in 1..n |-> k - 1], contents)
    /\ raw_value = <<>>
    /\ img_cv = <<>>
    /\ NoResults
    /\ NoName
    /\ NoPipeline

NextLongNumbers == ExtractJobNumber \/ ExtractOperations

SpecLongNumbers == InitLongNumbers /\ [][NextLongNumbers]_vars

\* areas for the association of tracking codes: candidates that share a
\* Q-suffix within an area and across areas, in an area without an operation
\* and in one without text, a suffix written with a leading zero, values
\* that are no candidate or carry no suffix
BarcodeContents == {
    [ocr_text |-> <<"1", "0", " ", "S", "A", "W">>,
     barcodes |-> <<>>],
    [ocr_text |-> <<"1", "0", " ", "S", "A", "W">>,
     barcodes |-> <<[barcode |-> <<"J", "1", "Q", "1", "0">>], [barcode |-> <<"J", "2", "Q", "1", "0">>]>>],
    [ocr_text |-> <<"x">>,
     barcodes |-> <<[barcode |-> <<"J", "3", "Q", "1", "0">>]>>],
    [ocr_text |-> <<>>,
     barcodes |-> <<[barcode |-> <<"J", "4", "Q", "1", "0">>]>>],
    [ocr_text |-> <<"2", "0", " ", "F", "I", "T">>,
     barcodes |-> <<[barcode |-> <<"J", "5", "Q", "0", "2", "0">>]>>],
    [ocr_text |-> <<"2", "0", " ", "F", "I", "T">>,
     barcodes |-> <<[barcode |-> <<"X", "Q", "2", "0">>], [barcode |-> <<"J", "7">>]>>]}

\* extract_job_and_operations on at most MaxAreas such areas
InitBarcodes ==
    /\ pc = "start"
    /\ \E n \in 0..MaxAreas :
         \E pages \in [1..n -> 1..MaxPage], contents \in [1..n -> BarcodeContents] :
            json_data = AreaList(pages, [k \in 1..n |-> k - 1], contents)
    /\ raw_value = <<>>
    /\ img_cv = <<>>
    /\ NoResults
    /\ NoName
    /\ NoPipeline

NextBarcodes == ExtractJobNumber \/ ExtractOperations

SpecBarcodes == InitBarcodes /\ [][NextBarcodes]_vars

\* clean_barcode_value on a decoded payload, and on its own result
InitSanitize ==
    /\ pc = "start"
    /\ raw_value \in SeqsUpTo(PayloadChars, MaxRawLen)
    /\ img_cv = <<>>
    /\ json_data = <<>>
    /\ NoResults
    /\ NoName
    /\ NoPipeline

CleanBarcodeValue ==
    /\ pc = "start"
    /\ UNCHANGED name_vars
    /\ cleaned' = clean_barcode_value(raw_value)
    /\ pc' = "cleaned"
    /\ UNCHANGED <<pipeline_vars, raw_value, recleaned, img_cv, lines_y, json_data, job_number,
                   operations_dict, barcodes_by_op_number, operations>>

CleanAgain ==
    /\ pc = "cleaned"
    /\ UNCHANGED name_vars
    /\ recleaned' = clean_barcode_value(cleaned)
    /\ pc' = "recleaned"
    /\ UNCHANGED <<pipeline_vars, raw_value, cleaned, img_cv, lines_y, json_data, job_number,
                   operations_dict, barcodes_by_op_number, operations>>

NextSanitize == CleanBarcodeValue \/ CleanAgain

SpecSanitize == InitSanitize /\ [][NextSanitize]_vars

\* detect_horizontal_lines on a page with the contours found on it
InitLines ==
    /\ pc = "start"
    /\ img_cv \in Images
    /\ raw_value = <<>>
    /\ json_data = <<>>
    /\ NoResults
    /\ NoName
    /\ NoPipeline

DetectHorizontalLines ==
    /\ pc = "start"
    /\ UNCHANGED name_vars
    /\ lines_y' = detect_horizontal_lines(img_cv)
    /\ pc' = "lines"
    /\ UNCHANGED <<pipeline_vars, raw_value, cleaned, recleaned, img_cv, json_data, job_number,
                   operations_dict, barcodes_by_op_number, operations>>

NextLines == DetectHorizontalLines

SpecLines == InitLines /\ [][NextLines]_vars

\* the pieces a raw operation name is put together from
NameTokens == {<<"C", "U", "T">>, <<" ">>, <<"~">>, <<"\n">>, <<"2", "0", "2", "2">>}

RECURSIVE concat(_)
concat(tokens) == IF tokens = <<>> THEN <<>> ELSE Head(tokens) \o concat(Tail(tokens))

\* what may stand before the name: nothing, a year of this century, a year of
\* the last one
NamePrefixes == {<<>>, <<"2", "0", "2", "2", " ">>, <<"2", "0", "2", "2", "\t", " ">>, <<"1", "9", "9", "9", " ">>}

\* the word "scan" in every letter case
ScanVariants ==
    {<<a, b, c, d>> : a \in {"s", "S"}, b \in {"c", "C"}, c \in {"a", "A"},
                      d \in {"n", "N"}}

\* what may follow the name: nothing, the word in any case with or without
\* more text, the operator instruction in its two forms
NameSuffixes ==
    {<<>>,
     <<" ", "S", "c", "a", "n", " ", "b", "a", "r", "c", "o", "d", "e", "s", " ", "t", "o", " ", "s", "t", "a", "r", "t", " ", "j", "o", "b", " ", "o", "p", "e", "r", "a", "t", "i", "o", "n">>,
     <<" ", "~", "S", "c", "a", "n", "-", "b", "a", "r", "c", "o", "d", "e", "s", "-", "t", "o", "-", "s", "t", "a", "r", "t", "-", "j", "o", "b", " ", "o", "p", "e", "r", "a", "t", "i", "o", "n">>,
     <<" ", "s", "c", "a", "n", " ", "b", "a", "r", "c", "o", "d", "e", "s", " ", "t", "0", " ", "s", "t", "a", "r", "t", " ", " ", "j", "o", "b", " ", "o", "p", "e", "r", "a", "t", "i", "o", "n", " ", "n", "o", "w">>}
    \cup {<<" ">> \o word \o rest :
            word \in ScanVariants,
            rest \in {<<>>, <<" ", "x">>, <<"\n", "x">>, <<"\n", " ">>}}

\* clean_operation_name on a name of at most MaxNameTokens pieces between a
\* prefix and a suffix
InitClean ==
    /\ pc = "start"
    /\ \E prefix \in NamePrefixes, suffix \in NameSuffixes, n \in 0..MaxNameTokens :
         \E tokens \in [1..n -> NameTokens] :
            raw_name = prefix \o concat(tokens) \o suffix
    /\ cleaned_name = <<>>
    /\ raw_value = <<>>
    /\ img_cv = <<>>
    /\ json_data = <<>>
    /\ NoResults
    /\ NoPipeline

\* cleaned_name = clean_operation_name(op_name)
CleanOperationName ==
    /\ pc = "start"
    /\ cleaned_name' = clean_operation_name(raw_name)
    /\ pc' = "done"
    /\ UNCHANGED <<pipeline_vars, raw_name, raw_value, cleaned, recleaned, img_cv,
                   lines_y, json_data, job_number, operations_dict,
                   barcodes_by_op_number, operations>>

NextClean == CleanOperationName

SpecClean == InitClean /\ [][NextClean]_vars


-----------------------------------------------------------------------------
(* The page, document and batch loops.                                     *)

\* "if y2 - y1 < 50: continue" in process_page
MIN_BAND_HEIGHT == 50

\* what a crop of a page can show: the text the OCR reader returns for it
\* (perform_ocr) and the barcodes pyzbar decodes in it, rect = (x, y, w, h)
\* relative to the crop
Readings == {
    [text |-> <<"1", "0", " ", "S", "A", "W">>,
     decoded |-> <<>>],
    [text |-> <<"J", "o", "b", " ", "N", "o">>,
     decoded |-> <<[type |-> "CODE39", data |-> <<"J", " ", "7">>,
                    rect |-> <<3, 5, 4, 2>>]>>],
    [text |-> <<>>,
     decoded |-> <<[type |-> "CODE128", data |-> <<"J", "7", "Q", "1", "0">>,
                    rect |-> <<1, 0, 6, 3>>]>>],
    [text |-> <<"O", "p", "e", "r", "a", "t", "i", "o", "n", " ", "1", "0", " ", "C", "U", "T">>,
     decoded |-> <<[type |-> "CODE39", data |-> <<"J", " ", "7">>,
                    rect |-> <<3, 5, 4, 2>>],
                   [type |-> "CODE128", data |-> <<"J", "7", "Q", "1", "0">>,
                    rect |-> <<2, 9, 6, 3>>]>>]}

DocReadings == {r \in Readings : Len(r.decoded) < 2 /\ r.text # <<>>}

\* page heights and line positions on either side of the minimum band height
PageHeights == {49, 50, 120}
PageLineYs == {30, 50, 70}

\* a page image: its shape, the full-width contours found on it, and what its
\* crops can show
PageImages(readings) ==
    UNION {[height : {h}, width : {10},
            contours : SeqsUpTo([y : {y \in PageLineYs : y < h}, w : {10}],
                                MaxContours),
            readings : {readings}] : h \in PageHeights}

\* the pages of the documents of the document and batch runs
DocPages(readings) ==
    {img \in PageImages(readings) :
        \/ img.contours = <<>> /\ img.height \in {49, 50}
        \/ img.height = 120 /\ Len(img.contours) = 1 /\ img.contours[1].y \in {30, 50}}

\* a document on disk: whether the path exists, whether pdf2image can
\* rasterize it, and the pages it then yields
Missing == [exists |-> FALSE, readable |-> FALSE, pages |-> <<>>]
Unreadable == [exists |-> TRUE, readable |-> FALSE, pages |-> <<>>]
Readable(pages) == [exists |-> TRUE, readable |-> TRUE, pages |-> pages]

\* detect_barcodes on the barcodes pyzbar decoded in the crop: the first
\* element of the returned pair
detect_barcodes(decoded) ==
    [k \in 1..Len(decoded) |->
        [type |-> decoded[k].type,
         barcode |-> clean_barcode_value(decoded[k].data),
         rect |-> decoded[k].rect]]

\* the area process_page appends for the band between lines_y[i] and
\* lines_y[i + 1]
area_of_band(page, i, y1, y2, text, barcodes) ==
    [page |-> page + 1, area_index |-> i, bbox |-> <<y1, y2>>,
     ocr_text |-> text, barcodes |-> barcodes]

\* y1, y2 = lines_y[i], lines_y[i + 1], for the 0-based i of the source
band_top == lines_y[band + 1]
band_bottom == lines_y[band + 2]

\* a loop that never skips a band
is_too_thin_never(y1, y2) == FALSE

\* "if y2 - y1 < 50"
is_too_thin(y1, y2) == y2 - y1 < MIN_BAND_HEIGHT

\* an existence test that lets every path through
path_exists_always(document) == TRUE

\* os.path.exists(pdf_path)
path_exists(document) == document.exists

\* a page loop that stops after the first page
pages_left_first_only(n, imgs) == n < Len(imgs) /\ n < 1

\* "for page_num, img in enumerate(images)": whether a page is left
pages_left(n, imgs) == n < Len(imgs)

\* process_page, lines 153-161: the boundaries of the page and the empty lists
StartPage ==
    /\ pc = "process_page"
    /\ UNCHANGED name_vars
    /\ lines_y' = detect_horizontal_lines(img_cv)
    /\ band' = 0
    /\ page_areas' = <<>>
    /\ pc' = "band"
    /\ NoRaise
    /\ UNCHANGED <<raw_value, cleaned, recleaned, img_cv, json_data, job_number,
                   operations_dict, barcodes_by_op_number, operations, caller,
                   easyocr_bound, pdf_files, pdf_file, images, page_num,
                   all_areas, crop, barcodes_data, band_text, calls>>

\* lines 163-166: a band below the minimum height is passed over
SkipBand ==
    /\ pc = "band"
    /\ UNCHANGED name_vars
    /\ band < Len(lines_y) - 1
    /\ is_too_thin(band_top, band_bottom)
    /\ band' = band + 1
    /\ NoRaise
    /\ UNCHANGED <<pc, raw_value, cleaned, recleaned, img_cv, lines_y, json_data,
                   job_number, operations_dict, barcodes_by_op_number, operations,
                   caller, easyocr_bound, pdf_files, pdf_file, images, page_num,
                   all_areas, crop, barcodes_data, band_text, page_areas, calls>>

\* lines 168-175: the crop of a retained band and its OCR preview, read with
\* a reader made on the spot from the global name easyocr
PreviewOcr ==
    /\ pc = "band"
    /\ UNCHANGED name_vars
    /\ band < Len(lines_y) - 1
    /\ ~is_too_thin(band_top, band_bottom)
    /\ \E shown \in img_cv.readings : crop' = shown
    /\ IF easyocr_bound
       THEN /\ calls' = Append(calls, Call("easyocr.Reader.readtext", page_num, band_top))
            /\ pc' = "detect_barcodes"
            /\ NoRaise
       ELSE /\ Raise("NameError")
            /\ UNCHANGED calls
    /\ UNCHANGED <<raw_value, cleaned, recleaned, img_cv, lines_y, json_data,
                   job_number, operations_dict, barcodes_by_op_number, operations,
                   caller, easyocr_bound, pdf_files, pdf_file, images, page_num,
                   all_areas, band, barcodes_data, band_text, page_areas>>

\* lines 177-183: detect_barcodes(crop)
DetectBarcodes ==
    /\ pc = "detect_barcodes"
    /\ UNCHANGED name_vars
    /\ barcodes_data' = detect_barcodes(crop.decoded)
    /\ calls' = Append(calls, Call("pyzbar.decode", page_num, band_top))
    /\ pc' = "perform_ocr"
    /\ NoRaise
    /\ UNCHANGED <<raw_value, cleaned, recleaned, img_cv, lines_y, json_data,
                   job_number, operations_dict, barcodes_by_op_number, operations,
                   caller, easyocr_bound, pdf_files, pdf_file, images, page_num,
                   all_areas, band, crop, band_text, page_areas>>

\* lines 185-187: perform_ocr(reader, crop_for_ocr)
PerformOcr ==
    /\ pc = "perform_ocr"
    /\ UNCHANGED name_vars
    /\ band_text' = crop.text
    /\ calls' = Append(calls, Call("reader.readtext", page_num, band_top))
    /\ pc' = "append_area"
    /\ NoRaise
    /\ UNCHANGED <<raw_value, cleaned, recleaned, img_cv, lines_y, json_data,
                   job_number, operations_dict, barcodes_by_op_number, operations,
                   caller, easyocr_bound, pdf_files, pdf_file, images, page_num,
                   all_areas, band, crop, barcodes_data, page_areas>>

\* lines 189-196: areas.append({...}), and on to the next band
AppendArea ==
    /\ pc = "append_area"
    /\ UNCHANGED name_vars
    /\ page_areas' = Append(page_areas,
                            area_of_band(page_num, band, band_top, band_bottom,
                                         band_text, barcodes_data))
    /\ band' = band + 1
    /\ pc' = "band"
    /\ NoRaise
    /\ UNCHANGED <<raw_value, cleaned, recleaned, img_cv, lines_y, json_data,
                   job_number, operations_dict, barcodes_by_op_number, operations,
                   caller, easyocr_bound, pdf_files, pdf_file, images, page_num,
                   all_areas, crop, barcodes_data, band_text, calls>>

\* lines 198-202 and 219-221: process_page returns its areas; in a document
\* run extract_areas_from_pdf extends all_areas with them and takes the next
\* page
ReturnPage ==
    /\ pc = "band"
    /\ UNCHANGED name_vars
    /\ band >= Len(lines_y) - 1
    /\ IF caller = "page"
       THEN /\ pc' = "returned"
            /\ UNCHANGED <<all_areas, page_num>>
       ELSE /\ all_areas' = all_areas \o page_areas
            /\ page_num' = page_num + 1
            /\ pc' = "next_page"
    /\ NoRaise
    /\ UNCHANGED <<raw_value, cleaned, recleaned, img_cv, lines_y, json_data,
                   job_number, operations_dict, barcodes_by_op_number, operations,
                   caller, easyocr_bound, pdf_files, pdf_file, images, band,
                   crop, barcodes_data, band_text, page_areas, calls>>

NextPage ==
    \/ StartPage \/ SkipBand \/ PreviewOcr \/ DetectBarcodes \/ PerformOcr
    \/ AppendArea \/ ReturnPage

\* process_page(page_num, img, reader) called on one page image
InitPage ==
    /\ pc = "process_page"
    /\ caller = "page"
    /\ easyocr_bound \in BOOLEAN
    /\ img_cv \in PageImages(Readings)
    /\ page_num \in 0..(MaxPage - 1)
    /\ pdf_files = <<>> /\ pdf_file = 0 /\ images = <<>> /\ all_areas = <<>>
    /\ band = 0 /\ crop = <<>> /\ barcodes_data = <<>> /\ band_text = <<>>
    /\ page_areas = <<>> /\ calls = <<>> /\ reports = <<>> /\ error = ""
    /\ raw_value = <<>> /\ json_data = <<>>
    /\ NoResults
    /\ NoName

SpecPage == InitPage /\ [][NextPage]_vars

\* the document the run is working on
document == pdf_files[pdf_file]

\* extract_areas_from_pdf, lines 208-209, reached from process_pdf_document
\* (lines 476-492): a path that does not exist raises FileNotFoundError
CheckExists ==
    /\ pc = "process_pdf_document"
    /\ UNCHANGED name_vars
    /\ IF path_exists(document)
       THEN pc' = "convert_from_path" /\ NoRaise
       ELSE Raise("FileNotFoundError")
    /\ UNCHANGED <<raw_value, cleaned, recleaned, img_cv, lines_y, json_data,
                   job_number, operations_dict, barcodes_by_op_number, operations,
                   caller, easyocr_bound, pdf_files, pdf_file, images, page_num,
                   all_areas, band, crop, barcodes_data, band_text, page_areas,
                   calls>>

\* line 212: images = convert_from_path(pdf_path); pdf2image raises on a file
\* it cannot rasterize
ConvertFromPath ==
    /\ pc = "convert_from_path"
    /\ UNCHANGED name_vars
    /\ calls' = Append(calls, Call("convert_from_path", -1, -1))
    /\ IF document.readable
       THEN /\ images' = document.pages
            /\ pc' = "reader"
            /\ NoRaise
       ELSE /\ Raise("PDFPageCountError")
            /\ UNCHANGED images
    /\ UNCHANGED <<raw_value, cleaned, recleaned, img_cv, lines_y, json_data,
                   job_number, operations_dict, barcodes_by_op_number, operations,
                   caller, easyocr_bound, pdf_files, pdf_file, page_num,
                   all_areas, band, crop, barcodes_data, band_text, page_areas>>

\* lines 213-215: reader = easyocr.Reader(lang_list); all_areas = []
CreateReader ==
    /\ pc = "reader"
    /\ UNCHANGED name_vars
    /\ IF easyocr_bound
       THEN /\ calls' = Append(calls, Call("easyocr.Reader", -1, -1))
            /\ all_areas' = <<>>
            /\ page_num' = 0
            /\ pc' = "next_page"
            /\ NoRaise
       ELSE /\ Raise("NameError")
            /\ UNCHANGED <<calls, all_areas, page_num>>
    /\ UNCHANGED <<raw_value, cleaned, recleaned, img_cv, lines_y, json_data,
                   job_number, operations_dict, barcodes_by_op_number, operations,
                   caller, easyocr_bound, pdf_files, pdf_file, images, band,
                   crop, barcodes_data, band_text, page_areas>>

\* lines 218-219: the next page of the document is handed to process_page
TakePage ==
    /\ pc = "next_page"
    /\ UNCHANGED name_vars
    /\ pages_left(page_num, images)
    /\ img_cv' = images[page_num + 1]
    /\ pc' = "process_page"
    /\ NoRaise
    /\ UNCHANGED <<raw_value, cleaned, recleaned, lines_y, json_data, job_number,
                   operations_dict, barcodes_by_op_number, operations, caller,
                   easyocr_bound, pdf_files, pdf_file, images, page_num,
                   all_areas, band, crop, barcodes_data, band_text, page_areas,
                   calls>>

\* lines 230 and 495: extract_areas_from_pdf returns all_areas and
\* process_pdf_document calls extract_job_and_operations(areas)
CallExtractors ==
    /\ pc = "next_page"
    /\ UNCHANGED name_vars
    /\ ~pages_left(page_num, images)
    /\ json_data' = all_areas
    /\ pc' = "start"
    /\ NoRaise
    /\ UNCHANGED <<raw_value, cleaned, recleaned, img_cv, lines_y, job_number,
                   operations_dict, barcodes_by_op_number, operations, caller,
                   easyocr_bound, pdf_files, pdf_file, images, page_num,
                   all_areas, band, crop, barcodes_data, band_text, page_areas,
                   calls>>

\* line 515: process_pdf_document returns job_and_operations; lines 578-581:
\* main has its result and goes on with the loop
ReturnDocument ==
    /\ pc = "done"
    /\ UNCHANGED name_vars
    /\ caller \in {"doc", "main"}
    /\ IF caller = "main"
       THEN /\ reports' = Append(reports, [pdf_file |-> pdf_file, outcome |-> "ok"])
            /\ pc' = "main_loop"
       ELSE /\ pc' = "returned"
            /\ UNCHANGED reports
    /\ UNCHANGED <<raw_value, cleaned, recleaned, img_cv, lines_y, json_data,
                   job_number, operations_dict, barcodes_by_op_number, operations,
                   caller, easyocr_bound, pdf_files, pdf_file, images, page_num,
                   all_areas, band, crop, barcodes_data, band_text, page_areas,
                   calls, error>>

NextDoc ==
    \/ CheckExists \/ ConvertFromPath \/ CreateReader \/ TakePage \/ NextPage
    \/ CallExtractors \/ ExtractJobNumber \/ ExtractOperations \/ ReturnDocument

\* the quiet start of a document or batch run
NoPageYet ==
    /\ images = <<>> /\ page_num = 0 /\ all_areas = <<>> /\ img_cv = <<>>
    /\ band = 0 /\ crop = <<>> /\ barcodes_data = <<>> /\ band_text = <<>>
    /\ page_areas = <<>> /\ calls = <<>> /\ reports = <<>> /\ error = ""
    /\ raw_value = <<>> /\ json_data = <<>>
    /\ NoResults
    /\ NoName

\* process_pdf_document(pdf_path) on one document of at most MaxPage pages
InitDoc ==
    /\ pc = "process_pdf_document"
    /\ caller = "doc"
    /\ easyocr_bound \in BOOLEAN
    /\ pdf_file = 1
    /\ \/ pdf_files \in {<<Missing>>, <<Unreadable>>}
       \/ \E n \in 0..MaxPage : \E pages \in [1..n -> DocPages(DocReadings)] :
             pdf_files = <<Readable(pages)>>
    /\ NoPageYet

SpecDoc == InitDoc /\ [][NextDoc]_vars

\* lines 567-568: "for pdf_file in args.pdf_files"
MainLoop ==
    /\ pc = "main_loop"
    /\ UNCHANGED name_vars
    /\ IF pdf_file < Len(pdf_files)
       THEN pdf_file' = pdf_file + 1 /\ pc' = "process_pdf_document"
       ELSE pc' = "exit" /\ UNCHANGED pdf_file
    /\ NoRaise
    /\ UNCHANGED <<raw_value, cleaned, recleaned, img_cv, lines_y, json_data,
                   job_number, operations_dict, barcodes_by_op_number, operations,
                   caller, easyocr_bound, pdf_files, images, page_num,
                   all_areas, band, crop, barcodes_data, band_text, page_areas,
                   calls>>

NextMain == MainLoop \/ NextDoc

\* the documents of a batch: a missing one, one pdf2image rejects, and one
\* page with a thin band above a retained one
BatchDocuments ==
    {Missing, Unreadable} \cup
    {Readable(<<img>>) : img \in {i \in DocPages({CHOOSE r \in DocReadings : r.decoded = <<>>}) :
                                     i.height = 120 /\ i.contours[1].y = 30}}

\* main on a batch of at most MaxDocs documents (at least one: main exits
\* before the loop on an empty list)
InitMain ==
    /\ pc = "main_loop"
    /\ caller = "main"
    /\ easyocr_bound \in BOOLEAN
    /\ pdf_file = 0
    /\ \E n \in 1..MaxDocs : pdf_files \in [1..n -> BatchDocuments]
    /\ NoPageYet

SpecMain == InitMain /\ [][NextMain]_vars


-----------------------------------------------------------------------------
(* Properties.                                                             *)

\* the digits after the decimal point of a number string
fraction_digits(op_number) ==
    DropTo(op_number, skip_digits(op_number, 1) + 1)

\* the k-th digit after the point, 0 when there is none
fraction_digit(op_number, k) ==
    IF k <= Len(fraction_digits(op_number))
    THEN DigitValue(fraction_digits(op_number)[k])
    ELSE 0

\* a < b for the decimal numbers written by two number strings
NumericLess(a, b) ==
    \/ int_float(a) < int_float(b)
    \/ /\ int_float(a) = int_float(b)
       /\ \E k \in 1..(Len(a) + Len(b)) :
            /\ fraction_digit(a, k) < fraction_digit(b, k)
            /\ \A j \in 1..(k - 1) : fraction_digit(a, j) = fraction_digit(b, j)

\* The scan positions of a list of areas: <<k, 0>> is the whole-text match of
\* area k, <<k, n>> the match of its n-th line.
ScanPositions(areas) ==
    UNION {{<<k, n>> : n \in 0..Len(split_lines(strip(areas[k].ocr_text)))} :
           k \in 1..Len(areas)}

Before(p, q) == p[1] < q[1] \/ (p[1] = q[1] /\ p[2] < q[2])

MatchAt(areas, p) ==
    IF p[2] = 0 THEN match_multiline(strip(areas[p[1]].ocr_text))
    ELSE match_line(strip(split_lines(strip(areas[p[1]].ocr_text))[p[2]]))

\* position p declares operation number n
Declares(areas, p, n) ==
    /\ int_float(n) <= MAX_OP_NUMBER
    /\ \E m \in {MatchAt(areas, p)} : m.matched /\ m.op_number = n

DeclaredName(areas, p) ==
    IF p[2] = 0
    THEN clean_operation_name(first_remaining_line(MatchAt(areas, p).op_name))
    ELSE clean_operation_name(MatchAt(areas, p).op_name)

\* C1: extract_operations returns at most one operation per op_number string,
\* and its op_name and page are those of the first declaration of the number
\* in scan order (areas in list order, whole-text match before the lines).
C1_FirstDeclarationWins ==
    pc = "done" =>
        /\ \A i, j \in 1..Len(operations) :
             i # j => operations[i].op_number # operations[j].op_number
        /\ \A i \in 1..Len(operations) :
             \E p \in ScanPositions(json_data) :
                /\ Declares(json_data, p, operations[i].op_number)
                /\ \A q \in ScanPositions(json_data) :
                     Before(q, p) => ~Declares(json_data, q, operations[i].op_number)
                /\ operations[i].op_name = DeclaredName(json_data, p)
                /\ operations[i].page = json_data[p[1]].page

\* a number is declared twice, with different names and on different pages
C1_Witness ==
    /\ pc = "done"
    /\ \E p, q \in ScanPositions(json_data) :
         /\ Before(p, q)
         /\ Declares(json_data, p, MatchAt(json_data, q).op_number)
         /\ Declares(json_data, q, MatchAt(json_data, q).op_number)
         /\ DeclaredName(json_data, p) # DeclaredName(json_data, q)
         /\ json_data[p[1]].page # json_data[q[1]].page

\* C2: the list returned by extract_operations is ascending by the numeric
\* value of op_number, decimals taken into account.
C2_SortedByNumericValue ==
    pc = "done" =>
        \A i, j \in 1..Len(operations) :
            i < j => ~NumericLess(operations[j].op_number, operations[i].op_number)

\* the integer part of a number string: its digits before the point
IntegerPart(op_number) ==
    LET points == {k \in 1..Len(op_number) : op_number[k] = "."}
    IN digits_value(IF points = {} THEN op_number
                    ELSE SubSeq(op_number, 1, Min(points) - 1))

\* C3: extract_operations never emits an operation whose op_number has an
\* integer part greater than 1000.
C3_NoNumberAbove1000 ==
    pc = "done" =>
        \A i \in 1..Len(operations) : IntegerPart(operations[i].op_number) <= 1000

\* an area whose whole text and whose line both start with a number above
\* 1000 yields no operation
C3_Witness ==
    /\ pc = "done"
    /\ operations = <<>>
    /\ \E p, q \in ScanPositions(json_data) :
         /\ p[2] = 0 /\ q[2] > 0
         /\ MatchAt(json_data, p).matched
         /\ MatchAt(json_data, q).matched
         /\ int_float(MatchAt(json_data, p).op_number) > MAX_OP_NUMBER
         /\ int_float(MatchAt(json_data, q).op_number) > MAX_OP_NUMBER

\* C4, as claimed: every emitted op_number has a numeric value v with
\* 1 <= v <= 1000.
C4_ValueBetween1And1000 ==
    pc = "done" =>
        \A i \in 1..Len(operations) :
            /\ ~NumericLess(operations[i].op_number, <<"1">>)
            /\ ~NumericLess(<<"1", "0", "0", "0">>, operations[i].op_number)

\* C4, amended: every emitted op_number has a numeric value v with
\* 0 <= v < 1001 (only the integer part of v is held to the limit of 1000).
C4_ValueBelow1001 ==
    pc = "done" =>
        \A i \in 1..Len(operations) :
            /\ ~NumericLess(operations[i].op_number, <<"0">>)
            /\ NumericLess(operations[i].op_number, <<"1", "0", "0", "1">>)

\* the operations "0" and "1000.5" are both emitted
C4_Witness ==
    /\ pc = "done"
    /\ \E i, j \in 1..Len(operations) :
         /\ operations[i].op_number = <<"0">>
         /\ operations[j].op_number = <<"1", "0", "0", "0", ".", "5">>

\* the text contains the "Job No" marker
HasMarker(area) == \E k \in 1..Len(area.ocr_text) : starts_at(area.ocr_text, k, JobNoMarker)

\* the page-1 areas with the marker and a barcode / with a barcode
LabelledWithBarcode(areas) ==
    {k \in 1..Len(areas) :
        areas[k].page = 1 /\ HasMarker(areas[k]) /\ Len(areas[k].barcodes) > 0}

WithBarcode(areas) ==
    {k \in 1..Len(areas) : areas[k].page = 1 /\ Len(areas[k].barcodes) > 0}

\* the member of S with the lowest area_index
LowestIndex(areas, S) ==
    CHOOSE k \in S : \A m \in S : areas[k].area_index <= areas[m].area_index

\* C5: if a page-1 area has the "Job No" marker and a barcode,
\* extract_job_number returns the first barcode of the such area with the
\* lowest area_index, wherever the areas stand in the list.
C5_LabelledAreaWins ==
    (pc = "job_number" /\ LabelledWithBarcode(json_data) # {}) =>
        job_number =
            json_data[LowestIndex(json_data, LabelledWithBarcode(json_data))].barcodes[1].barcode

\* an unlabelled page-1 area with a lower area_index has another barcode and
\* stands before the labelled area in the list
C5_Witness ==
    /\ pc = "job_number"
    /\ \E i, j \in 1..Len(json_data) :
         /\ i < j
         /\ j \in LabelledWithBarcode(json_data)
         /\ i \in WithBarcode(json_data) \ LabelledWithBarcode(json_data)
         /\ json_data[i].area_index < json_data[j].area_index
         /\ json_data[i].barcodes[1].barcode # json_data[j].barcodes[1].barcode
         /\ job_number = json_data[j].barcodes[1].barcode

\* C6: if no page-1 area has the marker, extract_job_number returns the first
\* barcode of the page-1 area with the lowest area_index that has a barcode;
\* if no page-1 area has a barcode it returns the empty string.
C6_FallbackToFirstBarcode ==
    pc = "job_number" =>
        /\ ((\A k \in 1..Len(json_data) : json_data[k].page = 1 => ~HasMarker(json_data[k]))
              /\ WithBarcode(json_data) # {}) =>
             job_number =
                json_data[LowestIndex(json_data, WithBarcode(json_data))].barcodes[1].barcode
        /\ WithBarcode(json_data) = {} => job_number = <<>>

\* without a marker, the page-1 area with the lowest area_index stands last
\* in the list and its barcode is returned
C6_Witness ==
    /\ pc = "job_number"
    /\ \A k \in 1..Len(json_data) : ~HasMarker(json_data[k])
    /\ \E i, j \in 1..Len(json_data) :
         /\ i < j
         /\ {i, j} \subseteq WithBarcode(json_data)
         /\ json_data[j].area_index < json_data[i].area_index
         /\ json_data[i].barcodes[1].barcode # json_data[j].barcodes[1].barcode
         /\ job_number = json_data[j].barcodes[1].barcode

\* the barcode value begins with J and ends with Q followed by the digits n
IsTrackingCodeOf(barcode_value, n) ==
    /\ Len(barcode_value) >= Len(n) + 2
    /\ barcode_value[1] = "J"
    /\ DropTo(barcode_value, Len(barcode_value) - Len(n)) = <<"Q">> \o n

\* C7: whenever an operation numbered N is discovered and any area of the
\* input has a barcode that begins with J and ends with Q and the digits N,
\* the emitted operation N has a non-empty op_id.
C7_CandidatesFromAllAreas ==
    pc = "done" =>
        \A i \in 1..Len(operations) :
            (\E k \in 1..Len(json_data) : \E b \in 1..Len(json_data[k].barcodes) :
                IsTrackingCodeOf(json_data[k].barcodes[b].barcode, operations[i].op_number))
            => operations[i].op_id # <<>>

IsDigitString(s) == s # <<>> /\ \A k \in 1..Len(s) : isdigit(s[k])

\* the candidates collected in the first pass, by Q-suffix
SuffixEntries == {k \in 1..Len(barcodes_by_op_number) :
                    barcodes_by_op_number[k].key_type = "str"}

\* C8, as claimed: an operation receives the candidate whenever Q-suffix and
\* op_number are equal as integers, and never when they differ as integers.
C8_MatchedAsIntegers ==
    pc = "done" =>
        \A i \in 1..Len(operations) :
            /\ \A k \in SuffixEntries :
                 (/\ IsDigitString(operations[i].op_number)
                  /\ digits_value(barcodes_by_op_number[k].suffix)
                        = digits_value(operations[i].op_number))
                 => operations[i].op_id # <<>>
            /\ operations[i].op_id # <<>> =>
                 /\ IsDigitString(operations[i].op_number)
                 /\ digits_value(q_suffix(operations[i].op_id))
                        = digits_value(operations[i].op_number)

\* C8, amended: an operation receives the candidate whenever Q-suffix and
\* op_number are equal as strings, and never when they differ as strings.
C8_MatchedAsStrings ==
    pc = "done" =>
        \A i \in 1..Len(operations) :
            /\ \A k \in SuffixEntries :
                 barcodes_by_op_number[k].suffix = operations[i].op_number
                 => operations[i].op_id = barcodes_by_op_number[k].value
            /\ operations[i].op_id # <<>> =>
                 \E k \in SuffixEntries :
                    /\ barcodes_by_op_number[k].suffix = operations[i].op_number
                    /\ barcodes_by_op_number[k].value = operations[i].op_id
                    /\ q_suffix(operations[i].op_id) = operations[i].op_number

\* one operation took the candidate with its own digits, and an operation
\* whose number equals a candidate's suffix only as an integer took none
C8_Witness ==
    /\ pc = "done"
    /\ \E i \in 1..Len(operations) : \E k \in SuffixEntries :
         /\ IsDigitString(operations[i].op_number)
         /\ digits_value(barcodes_by_op_number[k].suffix)
               = digits_value(operations[i].op_number)
         /\ barcodes_by_op_number[k].suffix # operations[i].op_number
         /\ operations[i].op_id = <<>>

\* the positions of the alphanumeric characters of s
AlnumPositions(s) == {k \in 1..Len(s) : isalnum(s[k])}

\* C9: clean_barcode_value is idempotent, its result holds alphanumeric
\* characters only, and it is the input with every other character removed
\* and the order of the remaining characters kept.
C9_SanitizeIdempotent ==
    /\ pc \in {"cleaned", "recleaned"} =>
         /\ \A k \in 1..Len(cleaned) : isalnum(cleaned[k])
         /\ Len(cleaned) = Cardinality(AlnumPositions(raw_value))
         /\ \A k \in AlnumPositions(raw_value) :
              cleaned[Cardinality({m \in AlnumPositions(raw_value) : m <= k})]
                 = raw_value[k]
    /\ pc = "recleaned" => recleaned = cleaned

\* a payload with punctuation between alphanumeric characters was cleaned twice
C9_Witness ==
    /\ pc = "recleaned"
    /\ Len(raw_value) = 3
    /\ raw_value[1] = "J" /\ raw_value[2] = "-" /\ raw_value[3] = "7"
    /\ cleaned = <<"J", "7">>

\* the top y of the contours at least min_line_length wide
QualifyingY(img) ==
    {img.contours[k].y : k \in {m \in 1..Len(img.contours) :
                                  img.contours[m].w >= min_line_length(img.width)}}

\* C10: detect_horizontal_lines returns a strictly ascending list whose first
\* element is 0, whose last element is the page height and whose elements are
\* exactly 0, the height and the top y of each qualifying contour.
C10_LinesAscendingWithEdges ==
    pc = "lines" =>
        /\ \A i, j \in 1..Len(lines_y) : i < j => lines_y[i] < lines_y[j]
        /\ lines_y[1] = 0
        /\ lines_y[Len(lines_y)] = img_cv.height
        /\ Range(lines_y) = {0, img_cv.height} \cup QualifyingY(img_cv)
        /\ QualifyingY(img_cv) = {} => lines_y = <<0, img_cv.height>>

\* a qualifying contour at the top of the page, and a contour too short to
\* qualify whose y is not a boundary
C10_Witness ==
    /\ pc = "lines"
    /\ 0 \in QualifyingY(img_cv)
    /\ \E k \in 1..Len(img_cv.contours) :
         /\ img_cv.contours[k].w < min_line_length(img_cv.width)
         /\ img_cv.contours[k].y \notin Range(lines_y)
    /\ Len(lines_y) = 2

\* the 1-based positions k of lines_y whose band lines_y[k]..lines_y[k+1] is at
\* least 50 pixels high
RetainedBands == {k \in 1..(Len(lines_y) - 1) : lines_y[k + 1] - lines_y[k] >= 50}

\* the calls made for the band that starts at y1
CallsFor(fn, y1) == {n \in 1..Len(calls) : calls[n].fn = fn /\ calls[n].y1 = y1}

\* C11: process_page emits no area for a band less than 50 pixels high and
\* invokes neither the OCR reader nor the barcode decoder for it; every
\* emitted area spans a band of at least 50 pixels, and the decoder and the
\* reader have been invoked for that band by the time its area is appended.
C11_ThinBandsSkipped ==
    /\ \A a \in 1..Len(page_areas) :
         /\ page_areas[a].bbox[2] - page_areas[a].bbox[1] >= 50
         /\ \E k \in RetainedBands :
              page_areas[a].bbox = <<lines_y[k], lines_y[k + 1]>>
         /\ CallsFor("pyzbar.decode", page_areas[a].bbox[1]) # {}
         /\ CallsFor("reader.readtext", page_areas[a].bbox[1]) # {}
    /\ \A n \in 1..Len(calls) : \E k \in RetainedBands : calls[n].y1 = lines_y[k]
    /\ pc = "returned" => Len(page_areas) = Cardinality(RetainedBands)

\* a page with a thin band and a retained band has been processed
C11_Witness ==
    /\ pc = "returned"
    /\ page_areas # <<>>
    /\ \E k \in 1..(Len(lines_y) - 1) : lines_y[k + 1] - lines_y[k] < 50

\* C12: the areas process_page emits for a page carry area_index 0, 1, 2, ...
\* without gaps, also when thinner bands before them were skipped.
C12_AreaIndexesConsecutive ==
    \A a \in 1..Len(page_areas) : page_areas[a].area_index = a - 1

\* C13: the rect of a stored barcode observation is page-absolute: the
\* decoder's rect (x, y, w, h) in a band that starts at top_y is stored as
\* (x, top_y + y, w, h).  Stated for the area just appended, whose band crop
\* still holds.
C13_RectsPageAbsolute ==
    (pc = "band" /\ page_areas # <<>>) =>
        LET area == page_areas[Len(page_areas)]
        IN \A k \in 1..Len(area.barcodes) :
              area.barcodes[k].rect =
                 <<crop.decoded[k].rect[1], area.bbox[1] + crop.decoded[k].rect[2],
                   crop.decoded[k].rect[3], crop.decoded[k].rect[4]>>

\* C14: when the source document does not exist, the document run ends with
\* a file-not-found error, and no rasterizer, OCR reader or barcode decoder
\* (nor anything else) has been invoked.
C14_MissingFileAbortsFirst ==
    (caller = "doc" /\ ~pdf_files[1].exists) =>
        /\ calls = <<>>
        /\ pc \in {"process_pdf_document", "raised"}
        /\ pc = "raised" => error = "FileNotFoundError"

\* the run on a missing document has ended
C14_Witness ==
    /\ caller = "doc"
    /\ ~pdf_files[1].exists
    /\ pc = "raised"
    /\ error = "FileNotFoundError"

\* C15: main processes every document of the batch exactly once and in list
\* order whatever the outcome of the documents before it: the outcomes
\* reported so far are those of documents 1, 2, ... in order, one each, a
\* failed document is reported as failed, no exception ends the run, and at
\* the end of the loop every document has been reported.
C15_BatchSurvivesFailures ==
    /\ pc # "raised"
    /\ Len(reports) <= Len(pdf_files)
    /\ \A k \in 1..Len(reports) : reports[k].pdf_file = k
    /\ Len(reports) = IF pc \in {"main_loop", "exit"} THEN pdf_file ELSE pdf_file - 1
    /\ \A k \in 1..Len(reports) :
         (~pdf_files[k].exists \/ ~pdf_files[k].readable) => reports[k].outcome # "ok"
    /\ pc = "exit" => Len(reports) = Len(pdf_files)

\* a batch has ended in which a document was processed after one that failed
C15_Witness ==
    /\ pc = "exit"
    /\ \E j, k \in 1..Len(reports) :
         j < k /\ reports[j].outcome # "ok" /\ reports[k].outcome = "ok"

\* the positions of the log at which fn was called
CallsOf(fn) == {n \in 1..Len(calls) : calls[n].fn = fn}

\* the number of retained bands of the 0-based page p so far: the decoder is
\* invoked once per retained band
BandsDecoded(p) ==
    Cardinality({n \in CallsOf("pyzbar.decode") : calls[n].page = p})

AreasOfPage(areas, p) == Cardinality({a \in 1..Len(areas) : areas[a].page = p})

\* C19: in a document run the pages are processed in ascending order, the
\* areas of page k are stamped k and are in the accumulated sequence before
\* page k+1 is started, and extract_job_number and extract_operations run
\* only after the last page, over the complete accumulated sequence, each at
\* most once and exactly once in a run that returns.
C19_PagesInOrderThenExtractors ==
    /\ \A m, n \in 1..Len(calls) :
         (m < n /\ calls[m].page >= 0 /\ calls[n].page >= 0)
            => calls[m].page <= calls[n].page
    /\ \A n \in 1..Len(calls) : calls[n].page >= 0 => calls[n].page <= page_num
    /\ \A a, b \in 1..Len(all_areas) : a < b => all_areas[a].page <= all_areas[b].page
    /\ \A p \in 0..(Len(images) - 1) :
         AreasOfPage(all_areas, p + 1) = IF p < page_num THEN BandsDecoded(p) ELSE 0
    /\ Cardinality(CallsOf("extract_job_number")) <= 1
    /\ Cardinality(CallsOf("extract_operations")) <= 1
    /\ \A n \in CallsOf("extract_job_number") \cup CallsOf("extract_operations") :
         /\ \A m \in 1..Len(calls) : calls[m].page >= 0 => m < n
         /\ page_num = Len(images)
         /\ json_data = all_areas
    /\ pc = "returned" =>
         /\ Cardinality(CallsOf("extract_job_number")) = 1
         /\ Cardinality(CallsOf("extract_operations")) = 1

\* a run over two pages, each with an area, has returned
C19_Witness ==
    /\ pc = "returned"
    /\ caller = "doc"
    /\ Len(images) = 2
    /\ AreasOfPage(json_data, 1) > 0
    /\ AreasOfPage(json_data, 2) > 0

\* C16: extract_job_and_operations never ends with an error, whatever the
\* areas hold, and for the empty list it returns the job number "" and no
\* operations.
C16_NeverRaises ==
    /\ pc # "raised"
    /\ pc = "done" /\ json_data = <<>> => job_number = <<>> /\ operations = <<>>

\* the spellings the patterns accept: [sS]can
ExactScanWords == {<<"s", "c", "a", "n">>, <<"S", "c", "a", "n">>}

WordAt(s, p, words) == p + 3 <= Len(s) /\ SubSeq(s, p, p + 3) \in words

HasWord(s, words) == \E p \in 1..Len(s) : WordAt(s, p, words)

\* s starts with a token 20dd
StartsWithYear(s) ==
    /\ Len(s) >= 4
    /\ s[1] = "2" /\ s[2] = "0" /\ isdigit(s[3]) /\ isdigit(s[4])
    /\ Len(s) = 4 \/ isspace(s[5])

EndsWithTilde(s) == strip(s) # <<>> /\ strip(s)[Len(strip(s))] = "~"

HasLineBreak(s) == \E k \in 1..Len(s) : s[k] = "\n"

\* raw_name read as N + " " + S + rest with the blank at position p
NameBefore(p) == SubSeq(raw_name, 1, p - 1)
RestAfter(p) == DropTo(raw_name, p + 5)

\* the positions p at which raw_name splits into N + " " + S + rest, with S
\* one of `words`, N free of the word in every case, of a leading year token
\* and of a closing "~", and rest free of line breaks
ScanSplits(words) ==
    {p \in 1..Len(raw_name) :
        /\ raw_name[p] = " "
        /\ WordAt(raw_name, p + 1, words)
        /\ ~HasWord(NameBefore(p), ScanVariants)
        /\ ~StartsWithYear(NameBefore(p))
        /\ ~EndsWithTilde(NameBefore(p))
        /\ ~HasLineBreak(RestAfter(p))}

\* C17 as stated: for a name N without the word "scan", the cleanup of
\* N + " " + S + rest is N stripped for every letter-case variant S of "scan"
\* (stated where nothing else interferes: N has no leading year token and no
\* closing "~", rest has no line break).
C17_AnyCaseRemoved ==
    pc = "done" =>
        \A p \in ScanSplits(ScanVariants) : cleaned_name = strip(NameBefore(p))

\* C17, amended: the fragment is removed when the word is written "scan" or
\* "Scan"; with any other letter case, and no "scan" or "Scan" elsewhere, the
\* name is only stripped.
C17_ScanOrCapitalScanRemoved ==
    pc = "done" =>
        /\ \A p \in ScanSplits(ExactScanWords) : cleaned_name = strip(NameBefore(p))
        /\ \A p \in ScanSplits(ScanVariants \ ExactScanWords) :
              ~HasWord(raw_name, ExactScanWords) => cleaned_name = strip(raw_name)

\* a name followed by " Scan" and more text has been cleaned to the name
C17_Witness ==
    /\ pc = "done"
    /\ \E p \in ScanSplits(ExactScanWords) :
          /\ raw_name[p + 1] = "S"
          /\ RestAfter(p) # <<>>
          /\ strip(NameBefore(p)) # <<>>
          /\ cleaned_name = strip(NameBefore(p))

\* the operator instruction in its documented spellings: space-joined, and
\* hyphen-joined with and without the leading "~"
Instructions == {
    <<"S", "c", "a", "n", " ", "b", "a", "r", "c", "o", "d", "e", "s", " ", "t", "o", " ", "s", "t", "a", "r", "t", " ", "j", "o", "b", " ", "o", "p", "e", "r", "a", "t", "i", "o", "n">>,
    <<"~", "S", "c", "a", "n", "-", "b", "a", "r", "c", "o", "d", "e", "s", "-", "t", "o", "-", "s", "t", "a", "r", "t", "-", "j", "o", "b", " ", "o", "p", "e", "r", "a", "t", "i", "o", "n">>,
    <<"S", "c", "a", "n", "-", "b", "a", "r", "c", "o", "d", "e", "s", "-", "t", "o", "-", "s", "t", "a", "r", "t", "-", "j", "o", "b", " ", "o", "p", "e", "r", "a", "t", "i", "o", "n">>}

\* four digits; with any_year = FALSE only the years 20dd
IsYearToken(s, any_year) ==
    /\ Len(s) = 4
    /\ \A k \in 1..4 : isdigit(s[k])
    /\ any_year \/ (s[1] = "2" /\ s[2] = "0")

LeadsWithYear(s, any_year) ==
    /\ Len(s) >= 4
    /\ IsYearToken(SubSeq(s, 1, 4), any_year)
    /\ Len(s) = 4 \/ isspace(s[5])

\* a year token and the whitespace after it
IsYearPrefix(s, any_year) ==
    /\ Len(s) >= 5
    /\ IsYearToken(SubSeq(s, 1, 4), any_year)
    /\ \A k \in 5..Len(s) : isspace(s[k])

\* a plain name: no surrounding whitespace, no leading year token, no "scan"
IsPlainName(s, any_year) ==
    /\ strip(s) = s
    /\ ~LeadsWithYear(s, any_year)
    /\ ~HasWord(s, ScanVariants)

\* raw_name reads as [year whitespace] N [" " instruction], with at least one
\* of the two present and N = raw_name[a..b] a plain name
IsDressedName(a, b, any_year) ==
    LET year == SubSeq(raw_name, 1, a - 1)
        instruction == SubSeq(raw_name, b + 1, Len(raw_name))
    IN /\ year = <<>> \/ IsYearPrefix(year, any_year)
       /\ instruction = <<>> \/ \E i \in Instructions : instruction = <<" ">> \o i
       /\ year # <<>> \/ instruction # <<>>
       /\ IsPlainName(SubSeq(raw_name, a, b), any_year)

NameReturned(any_year) ==
    \A a \in 1..(Len(raw_name) + 1) : \A b \in (a - 1)..Len(raw_name) :
        IsDressedName(a, b, any_year) => cleaned_name = SubSeq(raw_name, a, b)

\* C18 as stated: a plain name N (no surrounding whitespace, no leading year
\* token, no "scan") comes back exactly when it is prefixed by a 4-digit year
\* token and whitespace and/or followed by the operator instruction in its
\* space-joined or hyphen-joined form.
C18_NameReturnedAfterAnyYear == pc = "done" => NameReturned(TRUE)

\* C18, amended: the same for a year token of the form 20dd.
C18_NameReturnedAfterYear20xx == pc = "done" => NameReturned(FALSE)

\* a non-empty name between "20dd " and an instruction has been cleaned
C18_Witness ==
    /\ pc = "done"
    /\ cleaned_name # <<>>
    /\ \E a \in 6..Len(raw_name) : \E b \in a..(Len(raw_name) - 1) :
          /\ IsDressedName(a, b, FALSE)
          /\ cleaned_name = SubSeq(raw_name, a, b)

\* the trimmed text of area k begins with an optional "Operation" label, a
\* number of integer part at most 1000, separators and more content
WholeTextDeclares(m) == m.matched /\ int_float(m.op_number) <= MAX_OP_NUMBER

\* the result holds an operation of the matched number, named by the cleaned
\* first line of what follows the number
YieldsWholeTextOperation(m) ==
    \E i \in 1..Len(operations) :
        /\ operations[i].op_number = m.op_number
        /\ operations[i].op_name = clean_operation_name(first_remaining_line(m.op_name))

\* an area before the k-th declares the number n
DeclaredEarlier(areas, k, n) ==
    \E q \in ScanPositions(SubSeq(areas, 1, k - 1)) : Declares(areas, q, n)

\* C20 as stated: every area whose trimmed text begins with an optional
\* "Operation" label and a number N (integer part at most 1000), separators
\* and more content yields an operation N named by the cleaned first line of
\* the remaining content.
C20_WholeTextYieldsOperation ==
    pc = "done" =>
        \A k \in 1..Len(json_data) :
            \A m \in {MatchAt(json_data, <<k, 0>>)} :
                WholeTextDeclares(m) => YieldsWholeTextOperation(m)

\* C20, amended: the same for every such area unless an earlier area of the
\* list declared the number N already.
C20_FirstWholeTextYieldsOperation ==
    pc = "done" =>
        \A k \in 1..Len(json_data) :
            \A m \in {MatchAt(json_data, <<k, 0>>)} :
                WholeTextDeclares(m) /\ ~DeclaredEarlier(json_data, k, m.op_number)
                    => YieldsWholeTextOperation(m)

\* a number alone on the first line, its name on the next line
C20_Witness ==
    /\ pc = "done"
    /\ \E k \in 1..Len(json_data) :
          \E m \in {MatchAt(json_data, <<k, 0>>)} :
             /\ WholeTextDeclares(m)
             /\ ~DeclaredEarlier(json_data, k, m.op_number)
             /\ strip(json_data[k].ocr_text)[Len(m.op_number) + 1] = "\n"
             /\ first_remaining_line(m.op_name) # <<>>
             /\ YieldsWholeTextOperation(m)

\* the result holds an operation of number n
HasOperation(n) == \E i \in 1..Len(operations) : operations[i].op_number = n

\* C21: every line of every area with non-empty text that reads
\* [Operation ]N [year ]name, with the integer part of N at most 1000, yields
\* an operation N in the result, whether or not the whole text of the area
\* matched: operation lines concatenated in one area are all discovered.
C21_EveryOperationLineFound ==
    pc = "done" =>
        \A k \in 1..Len(json_data) :
            \A lines \in {split_lines(strip(json_data[k].ocr_text))} :
                \A n \in 1..Len(lines) :
                    \A m \in {match_line(strip(lines[n]))} :
                        m.matched /\ int_float(m.op_number) <= MAX_OP_NUMBER
                            => HasOperation(m.op_number)

\* the whole text of an area declares one number, a later line of the same
\* area another, and both are in the result
C21_Witness ==
    /\ pc = "done"
    /\ \E p \in ScanPositions(json_data) :
          /\ p[2] >= 2
          /\ \E whole \in {MatchAt(json_data, <<p[1], 0>>)}, m \in {MatchAt(json_data, p)} :
                /\ whole.matched /\ m.matched
                /\ whole.op_number # m.op_number
                /\ int_float(m.op_number) <= MAX_OP_NUMBER
                /\ HasOperation(whole.op_number)
                /\ HasOperation(m.op_number)

\* the b-th barcode of area k is a candidate whose Q-suffix is n
IsMatchingCandidate(areas, k, b, n) ==
    /\ is_candidate(areas[k].barcodes[b].barcode)
    /\ q_suffix(areas[k].barcodes[b].barcode) = n

\* C22: the association does not depend on where the barcode is relative to
\* the declaration of the operation: a matching candidate in any area of the
\* list, before or after the declaring one, gives the operation a tracking
\* code of its own number.
C22_AssignedWhereverCandidateIs ==
    pc = "done" =>
        \A i \in 1..Len(operations) :
            \A k \in 1..Len(json_data) : \A b \in 1..Len(json_data[k].barcodes) :
                IsMatchingCandidate(json_data, k, b, operations[i].op_number)
                    => /\ operations[i].op_id # <<>>
                       /\ q_suffix(operations[i].op_id) = operations[i].op_number

\* the top y of the contours whose width is at least 60% of the page width
AtLeastSixtyPercentY(img) ==
    {img.contours[k].y : k \in {m \in 1..Len(img.contours) :
                                  10 * img.contours[m].w >= 6 * img.width}}

\* C23: the boundaries between the page edges are the top y of exactly the
\* contours whose bounding box is at least 60% of the page width wide, for
\* every page width, a multiple of 5 or not.
C23_KeptIffSixtyPercentWide ==
    pc = "lines" =>
        Range(lines_y) = {0, img_cv.height} \cup AtLeastSixtyPercentY(img_cv)

InputBarcodeValues ==
    UNION {{json_data[k].barcodes[b].barcode : b \in 1..Len(json_data[k].barcodes)} :
              k \in 1..Len(json_data)}

\* C25: the op_id of every emitted operation is the empty string or one
\* barcode value of the input that begins with J and ends with Q followed by
\* exactly the digits of the operation's op_number; the list of candidates
\* kept per page is never an op_id.
C25_OpIdEmptyOrOwnTrackingCode ==
    pc = "done" =>
        \A i \in 1..Len(operations) :
            \/ operations[i].op_id = <<>>
            \/ /\ operations[i].op_id \in InputBarcodeValues
               /\ IsTrackingCodeOf(operations[i].op_id, operations[i].op_number)

\* one operation has its own tracking code while the page of that code has
\* its list of candidates in the map, and another operation stays without
\* op_id although a barcode that is no candidate ends with Q and its number
C25_Witness ==
    /\ pc = "done"
    /\ \E i \in 1..Len(operations) :
         /\ operations[i].op_id \in InputBarcodeValues
         /\ IsTrackingCodeOf(operations[i].op_id, operations[i].op_number)
         /\ \E e \in 1..Len(barcodes_by_op_number) :
              /\ barcodes_by_op_number[e].key_type = "int"
              /\ \E v \in 1..Len(barcodes_by_op_number[e].values) :
                   barcodes_by_op_number[e].values[v] = operations[i].op_id
    /\ \E i \in 1..Len(operations) :
         /\ operations[i].op_id = <<>>
         /\ \E value \in InputBarcodeValues :
              value[1] # "J" /\ q_suffix(value) = operations[i].op_number

\* the places <<area, barcode>> of the candidates with Q-suffix n in the areas
\* that have text, and the order in which the scan meets them
ScannedCandidates(n) ==
    {p \in UNION {{<<k, b>> : b \in 1..Len(json_data[k].barcodes)} :
                     k \in 1..Len(json_data)} :
        /\ strip(json_data[p[1]].ocr_text) # <<>>
        /\ IsMatchingCandidate(json_data, p[1], p[2], n)}

ScannedBefore(p, q) == p[1] < q[1] \/ (p[1] = q[1] /\ p[2] < q[2])

LastScanned(places) ==
    CHOOSE p \in places : \A q \in places \ {p} : ScannedBefore(q, p)

ValueAt(p) == json_data[p[1]].barcodes[p[2]].barcode

\* C26: when several candidates of the scanned areas carry the same Q-suffix,
\* the operation with that number receives the one the scan meets last.
C26_LastCandidateWins ==
    pc = "done" =>
        \A i \in 1..Len(operations) :
            \A places \in {ScannedCandidates(operations[i].op_number)} :
                places # {} => operations[i].op_id = ValueAt(LastScanned(places))

\* an operation with two different candidates, in one area or in two; its
\* name is that of the first declaration, its op_id the later candidate
C26_Witness ==
    /\ pc = "done"
    /\ \E i \in 1..Len(operations) :
         \E p, q \in ScannedCandidates(operations[i].op_number) :
            /\ ScannedBefore(p, q)
            /\ ValueAt(p) # ValueAt(q)
            /\ operations[i].op_id = ValueAt(q)
            /\ operations[i].op_id # ValueAt(p)

\* s begins with a token 20dd and whitespace: what year_pattern removes
YearPrefixLeft(s) ==
    /\ Len(s) >= 5
    /\ IsYearToken(SubSeq(s, 1, 4), FALSE)
    /\ isspace(s[5])

\* s begins with a token 20dd, whitespace, and then one more such token with
\* whitespace after it
HasSecondYear(s) ==
    /\ YearPrefixLeft(s)
    /\ \E j \in 6..Len(s) :
         /\ \A k \in 5..(j - 1) : isspace(s[k])
         /\ YearPrefixLeft(DropTo(s, j))

\* a name as extract_operations takes it from a line, with at most one year
\* before it: no leading whitespace, no line break, no second year token
IsSingleLineName(s) ==
    /\ s = <<>> \/ ~isspace(s[1])
    /\ ~HasLineBreak(s)
    /\ ~HasSecondYear(s)

Surrounded(s) == s # <<>> /\ (isspace(s[1]) \/ isspace(s[Len(s)]))

\* C27: clean_operation_name is idempotent: cleaning a cleaned name returns it
\* unchanged, for every name.
C27_CleanIsIdempotent ==
    pc = "done" => clean_operation_name(cleaned_name) = cleaned_name

\* C27, for single-line names: cleaning the cleaned name returns it
\* unchanged, and the cleaned name has no leading year token, no word
\* scan/Scan and no surrounding whitespace.
C27_CleanIsIdempotentOnSingleLineNames ==
    pc = "done" /\ IsSingleLineName(raw_name) =>
        /\ clean_operation_name(cleaned_name) = cleaned_name
        /\ ~YearPrefixLeft(cleaned_name)
        /\ ~HasWord(cleaned_name, ExactScanWords)
        /\ ~Surrounded(cleaned_name)

\* a single-line name with a year before it, whitespace around it and a scan
\* instruction after it has been cleaned to a name that is not empty
C27_Witness ==
    /\ pc = "done"
    /\ IsSingleLineName(raw_name)
    /\ YearPrefixLeft(raw_name)
    /\ HasWord(raw_name, ExactScanWords)
    /\ cleaned_name # <<>>
    /\ cleaned_name # raw_name
    /\ clean_operation_name(cleaned_name) = cleaned_name

\* the page-1 areas that carry the marker and have no barcode
LabelledWithoutBarcode(areas) ==
    {k \in 1..Len(areas) :
        areas[k].page = 1 /\ HasMarker(areas[k]) /\ areas[k].barcodes = <<>>}

\* the value the resolver is to return: the first barcode of the labelled
\* page-1 area with the lowest area_index that has a barcode, else of the
\* page-1 area with the lowest area_index that has a barcode
ValueOfLowest(areas, S) == areas[LowestIndex(areas, S)].barcodes[1].barcode

ResolvedPastUnbarcodedLabel ==
    /\ LabelledWithBarcode(json_data) # {} =>
         job_number = ValueOfLowest(json_data, LabelledWithBarcode(json_data))
    /\ (LabelledWithBarcode(json_data) = {} /\ WithBarcode(json_data) # {}) =>
         job_number = ValueOfLowest(json_data, WithBarcode(json_data))

\* C28: a page-1 area with the marker and without a barcode does not stop
\* the resolution: the result is the first barcode of a labelled page-1 area
\* that has one, else of the first page-1 area with a barcode, and it is the
\* empty string only when no page-1 area has a barcode.
C28_UnbarcodedLabelDoesNotStop ==
    (pc = "job_number" /\ LabelledWithoutBarcode(json_data) # {}) =>
        /\ ResolvedPastUnbarcodedLabel
        /\ job_number = <<>> => WithBarcode(json_data) = {}

\* C28, with the barcode whose value is empty: the result is the empty
\* string only when no page-1 area has a barcode or the barcode that is
\* returned has an empty value.
C28_UnbarcodedLabelDoesNotStopResolution ==
    (pc = "job_number" /\ LabelledWithoutBarcode(json_data) # {}) =>
        /\ ResolvedPastUnbarcodedLabel
        /\ job_number = <<>> =>
             \/ WithBarcode(json_data) = {}
             \/ \E k \in WithBarcode(json_data) :
                  /\ json_data[k].barcodes[1].barcode = <<>>
                  /\ \A m \in WithBarcode(json_data) \ {k} :
                       \/ json_data[k].area_index < json_data[m].area_index
                       \/ (HasMarker(json_data[k]) /\ ~HasMarker(json_data[m]))

\* the labelled page-1 area without a barcode has the lowest area_index and
\* the job number comes from the page-1 area after it
C28_Witness ==
    /\ pc = "job_number"
    /\ job_number # <<>>
    /\ \E i \in LabelledWithoutBarcode(json_data), j \in WithBarcode(json_data) :
         /\ json_data[i].area_index < json_data[j].area_index
         /\ job_number = json_data[j].barcodes[1].barcode

====
